---- MODULE Spec2Model ----
(***************************************************************************)
(* A model of the PyView analysis core (src/pyview): the identifier        *)
(* scheme, the per-file AST extractor, the integrator, the orchestrator    *)
(* (AnalyzerEngine.analyze_project) and the file fingerprint cache         *)
(* (CacheManager / IncrementalAnalyzer).                                   *)
(*                                                                         *)
(* Conventions.                                                            *)
(*  - A file path is a record [dirs, stem]: the directory parts            *)
(*    (pathlib's path.parts[:-1], the root "/" first) and the file name    *)
(*    without its ".py" suffix.  Only ".py" files are ever discovered.     *)
(*  - A dotted module name is the sequence of its segments; it becomes a   *)
(*    string where the code formats it into an id.                         *)
(*  - Ids are the strings the f-strings of models.py build.                *)
(*  - A source file's content is an index into Programs, a table of small  *)
(*    syntax trees; 0 stands for "no such file".                           *)
(*  - Where one source file calls another with a signature the other does  *)
(*    not declare (ASTAnalyzer(enable_type_inference=...),                 *)
(*    FileAnalysis.functions, FileAnalysis.lines_of_code,                  *)
(*    ModuleInfo(display_label=...)), the model follows the caller's data  *)
(*    flow and leaves the attribute out.                                   *)
(***************************************************************************)
EXTENDS Integers, Sequences, FiniteSets, TLC

(***************************************************************************)
(* Generic helpers                                                         *)
(***************************************************************************)
None == "None"

Range(s) == {s[i] : i \in 1..Len(s)}

Min(S) == CHOOSE x \in S : \A y \in S : x <= y

RECURSIVE JoinWith(_, _)
\* sep.join(segs)
JoinWith(segs, sep) ==
    IF segs = <<>> THEN ""
    ELSE IF Len(segs) = 1 THEN segs[1]
    ELSE segs[1] \o sep \o JoinWith(Tail(segs), sep)

RECURSIVE Flatten(_)
\* the concatenation of a sequence of sequences (list.extend in a loop)
Flatten(ss) == IF ss = <<>> THEN <<>> ELSE Head(ss) \o Flatten(Tail(ss))

\* s[:n]
Take(s, n) == SubSeq(s, 1, IF n < Len(s) THEN n ELSE Len(s))

\* Body applied to the value of an expression, the value computed once
With(value, Body(_)) == CHOOSE r \in {Body(v) : v \in {value}} : TRUE

\* the injective sequences over a finite set: every order of a listing
Perms(S) == {s \in [1..Cardinality(S) -> S] : \A i, j \in 1..Cardinality(S) : s[i] = s[j] => i = j}

(***************************************************************************)
(* The source tree                                                         *)
(***************************************************************************)
ProjectRoot == <<"/", "proj">>

FileA == [dirs |-> <<"/", "proj">>, stem |-> "a"]
FileB == [dirs |-> <<"/", "proj">>, stem |-> "b"]
FilePkgA == [dirs |-> <<"/", "proj", "pkg">>, stem |-> "a"]
FilePkgB == [dirs |-> <<"/", "proj", "pkg">>, stem |-> "b"]
FilePkgC == [dirs |-> <<"/", "proj", "pkg">>, stem |-> "c"]
FilePkgD == [dirs |-> <<"/", "proj", "pkg">>, stem |-> "d"]

\* the directories that hold a setup.py, a pyproject.toml or an __init__.py
\* (here: /proj/pkg holds a pyproject.toml)
MarkerDirs == {<<"/", "proj", "pkg">>}

\* os.path.join(root, file): the path string of a file
PathStr(p) == "/" \o JoinWith(Tail(p.dirs) \o <<p.stem>>, "/") \o ".py"

(***************************************************************************)
(* models.py: the identifier scheme                                        *)
(***************************************************************************)
create_package_id(package_name) == "pkg:" \o package_name

\* create_module_id on a dotted module name given by its segments:
\* replace('/', '.') changes nothing, a trailing ".py" is cut
create_module_id(name_segs) ==
    LET n == Len(name_segs)
        cut == IF n > 1 /\ name_segs[n] = "py" THEN SubSeq(name_segs, 1, n - 1) ELSE name_segs
    IN "mod:" \o JoinWith(cut, ".")

\* create_module_id on a file path string: every "/" becomes ".", the ".py" is cut
create_module_id_of_path(p) == "mod:" \o "." \o JoinWith(Tail(p.dirs) \o <<p.stem>>, ".")

create_class_id(module_id, class_name) == "cls:" \o module_id \o ":" \o class_name

create_method_id(class_id, method_name, line_number) ==
    IF class_id # None
    THEN "meth:" \o class_id \o ":" \o method_name \o ":" \o ToString(line_number)
    ELSE "func:" \o method_name \o ":" \o ToString(line_number)

create_field_id(class_id, field_name) == "field:" \o class_id \o ":" \o field_name

create_relationship_id(from_entity, to_entity, rel_type) ==
    "rel:" \o from_entity \o "->" \o to_entity \o ":" \o rel_type

(***************************************************************************)
(* Syntax trees                                                            *)
(***************************************************************************)
ClassDef(name, lineno, bases, body) ==
    [kind |-> "ClassDef", name |-> name, lineno |-> lineno, bases |-> bases, body |-> body]

FunctionDef(name, lineno, body) ==
    [kind |-> "FunctionDef", name |-> name, lineno |-> lineno, bases |-> <<>>, body |-> body]

\* an assignment; target is "Name" (x = v) or "SelfAttr" (self.x = v)
Assign(target, name, lineno) ==
    [kind |-> "Assign", name |-> name, lineno |-> lineno, bases |-> <<target>>, body |-> <<>>]

\* a call statement f(): name is the text of the callee
CallStmt(name, lineno) ==
    [kind |-> "Call", name |-> name, lineno |-> lineno, bases |-> <<>>, body |-> <<>>]

\* import n1, n2, ...: the imported dotted names, each by its segments
Import(names, lineno) == [kind |-> "Import", names |-> names, lineno |-> lineno, body |-> <<>>]

ProgEmpty == <<>>

\* class C:            (1)
\*     def m(self):    (3)
ProgClassMethod == <<ClassDef("C", 1, <<>>, <<FunctionDef("m", 3, <<>>)>>)>>

\* def f():            (1)
ProgFunction == <<FunctionDef("f", 1, <<>>)>>

\* class C(Base):           (1)
\*     x = 0                (2)
\*     def __init__(self):  (3)
\*         self.x = 1       (4)
\* def f():                 (5)
ProgFields ==
    <<ClassDef("C", 1, <<"Base">>,
        <<Assign("Name", "x", 2),
          FunctionDef("__init__", 3, <<Assign("SelfAttr", "x", 4)>>)>>),
      FunctionDef("f", 5, <<>>)>>

\* the syntax trees of the contents that parse
Programs == <<ProgEmpty, ProgClassMethod, ProgFunction, ProgFields>>

\* A file's content: 0 is "no such file", 1..Len(Programs) a program that
\* parses, BadSyntax a text ast.parse rejects, Undecodable bytes that are not
\* UTF-8 (open/read raises).
NoFile == 0
BadSyntax == Len(Programs) + 1
Undecodable == Len(Programs) + 2
Contents == 1..Undecodable

\* import a
ProgImportA == <<Import(<< <<"a">> >>, 1)>>

\* import b
ProgImportB == <<Import(<< <<"b">> >>, 1)>>

\* import c
ProgImportC == <<Import(<< <<"c">> >>, 1)>>

\* import d
ProgImportD == <<Import(<< <<"d">> >>, 1)>>

\* import a       (1)
\* import c       (2)
ProgImportAC == <<Import(<< <<"a">> >>, 1), Import(<< <<"c">> >>, 2)>>

\* import b, c
ProgImportBC == <<Import(<< <<"b">>, <<"c">> >>, 1)>>

\* the programs that only import: the contents after Undecodable
ImportPrograms ==
    <<ProgImportA, ProgImportB, ProgImportC, ProgImportD, ProgImportAC, ProgImportBC>>

\* the content that holds ImportPrograms[k]
Importing(k) == Undecodable + k

\* a file whose permission bits deny reading: os.stat succeeds, open() raises
\* PermissionError
Denied == Importing(Len(ImportPrograms)) + 1

\* a module of comment lines only, longer than the per-file cap of the
\* streaming processor: it parses as the empty module
Oversized == Denied + 1

\* the length in bytes of the text of a content
file_size(c) == <<0, 92, 14, 92, 6, 3, 8, 8, 8, 8, 17, 11, 92, 10485761>>[c]

\* ast.parse of a content that parses
SyntaxTree(c) ==
    IF c = Oversized THEN ProgEmpty
    ELSE IF c <= Len(Programs) THEN Programs[c]
    ELSE ImportPrograms[c - Undecodable]

(***************************************************************************)
(* ast_analyzer.py: pass 1, SymbolTableBuilder                             *)
(***************************************************************************)
\* ASTAnalyzer._get_module_name: the segments of the dotted module name.
\* The loop walks the parents from the nearest one up and stops at the first
\* that holds a marker file; i keeps its last value when none does.
\* (dirs is never empty here: every discovered path is below the root.)
get_module_name(p) ==
    LET parts == p.dirs
        n == Len(parts)
        hits == {i \in 0..(n - 1) : SubSeq(parts, 1, n - i) \in MarkerDirs}
        i == IF hits # {} THEN Min(hits) ELSE n - 1
        remaining_parts == SubSeq(parts, n - i + 1, n)
    IN remaining_parts \o <<p.stem>>

EmptyTable == [classes |-> <<>>, methods |-> <<>>, fields |-> <<>>, imports |-> <<>>]

\* the context of the visitor: module_id, current_class (a class id or None)
\* and scope_stack (the kinds and names of the enclosing classes and methods)
RECURSIVE visit_body(_, _, _, _)
RECURSIVE visit_node(_, _, _, _)

\* SymbolTableBuilder.visit_Import: one ImportInfo per imported name
visit_Import(node, tab) ==
    [tab EXCEPT !.imports =
        @ \o [k \in 1..Len(node.names) |->
                [module |-> node.names[k], line_number |-> node.lineno]]]

\* SymbolTableBuilder._create_field
create_field(node, file_path, ctx, tab) ==
    IF ctx.current_class = None THEN tab
    ELSE LET is_class_variable ==
                 ~ \E k \in 1..Len(ctx.scope_stack) :
                       /\ ctx.scope_stack[k].kind = "MethodInfo"
                       /\ ctx.scope_stack[k].name = "__init__"
             field_info == [id |-> create_field_id(ctx.current_class, node.name),
                            name |-> node.name,
                            class_id |-> ctx.current_class,
                            line_number |-> node.lineno,
                            file_path |-> file_path,
                            is_class_variable |-> is_class_variable]
         IN [tab EXCEPT !.fields = Append(@, field_info)]

\* visit_ClassDef recording the class's own name where the id of the module
\* belongs
visit_ClassDef_naming_itself(node, file_path, ctx, tab) ==
    LET class_id == create_class_id(ctx.module_id, node.name)
        class_info == [id |-> class_id,
                       name |-> node.name,
                       module_id |-> "mod:" \o node.name,
                       line_number |-> node.lineno,
                       file_path |-> file_path,
                       bases |-> node.bases]
        inner == [ctx EXCEPT !.current_class = class_id,
                             !.scope_stack = Append(@, [kind |-> "ClassInfo", name |-> node.name])]
    IN visit_body(node.body, file_path, inner, [tab EXCEPT !.classes = Append(@, class_info)])

\* SymbolTableBuilder.visit_ClassDef
visit_ClassDef(node, file_path, ctx, tab) ==
    LET class_id == create_class_id(ctx.module_id, node.name)
        class_info == [id |-> class_id,
                       name |-> node.name,
                       module_id |-> ctx.module_id,
                       line_number |-> node.lineno,
                       file_path |-> file_path,
                       bases |-> node.bases]
        inner == [ctx EXCEPT !.current_class = class_id,
                             !.scope_stack = Append(@, [kind |-> "ClassInfo", name |-> node.name])]
    IN visit_body(node.body, file_path, inner, [tab EXCEPT !.classes = Append(@, class_info)])

\* SymbolTableBuilder._visit_function_def
visit_function_def(node, file_path, ctx, tab) ==
    LET is_method == ctx.current_class # None
        method_id == create_method_id(ctx.current_class, node.name, node.lineno)
        method_info == [id |-> method_id,
                        name |-> node.name,
                        line_number |-> node.lineno,
                        file_path |-> file_path,
                        class_id |-> ctx.current_class,
                        is_method |-> is_method]
        inner == [ctx EXCEPT !.scope_stack = Append(@, [kind |-> "MethodInfo", name |-> node.name])]
    IN visit_body(node.body, file_path, inner, [tab EXCEPT !.methods = Append(@, method_info)])

\* SymbolTableBuilder.visit_Assign: a field for a Name target and for self.attr
visit_Assign(node, file_path, ctx, tab) ==
    IF ctx.current_class # None /\ node.bases[1] \in {"Name", "SelfAttr"}
    THEN create_field(node, file_path, ctx, tab)
    ELSE tab

visit_node(node, file_path, ctx, tab) ==
    CASE node.kind = "ClassDef"    -> visit_ClassDef(node, file_path, ctx, tab)
      [] node.kind = "FunctionDef" -> visit_function_def(node, file_path, ctx, tab)
      [] node.kind = "Assign"      -> visit_Assign(node, file_path, ctx, tab)
      [] node.kind = "Import"      -> visit_Import(node, tab)
      [] OTHER                     -> tab

\* NodeVisitor.generic_visit: the children in source order
visit_body(nodes, file_path, ctx, tab) ==
    IF nodes = <<>> THEN tab
    ELSE visit_body(Tail(nodes), file_path, ctx, visit_node(Head(nodes), file_path, ctx, tab))

\* SymbolTableBuilder(file_path, module_name).visit(tree)
SymbolTableBuilder(p, tree) ==
    visit_body(tree, PathStr(p),
               [module_id |-> create_module_id(get_module_name(p)),
                current_class |-> None,
                scope_stack |-> <<>>],
               EmptyTable)

(***************************************************************************)
(* ast_analyzer.py: pass 2, ReferenceExtractor                             *)
(***************************************************************************)

\* ReferenceExtractor.visit_ClassDef: one inheritance edge per base name
inheritance_edges(node, file_path, module_id) ==
    LET class_id == create_class_id(module_id, node.name)
    IN [k \in 1..Len(node.bases) |->
          [id |-> create_relationship_id(class_id, node.bases[k], "inheritance"),
           from_entity |-> class_id,
           to_entity |-> node.bases[k],
           relationship_type |-> "inheritance",
           line_number |-> node.lineno,
           file_path |-> file_path]]

\* the visitor of pass 2: st holds self.relationships and self.current_method
\* (a method id or None), scope_stack the ids of the classes and methods
\* entered, and env the symbol table of pass 1
RECURSIVE extract_nodes(_, _, _, _)
RECURSIVE extract_node(_, _, _, _)

\* ReferenceExtractor.visit_ClassDef
extract_ClassDef(node, env, scope_stack, st) ==
    LET class_id == create_class_id(env.module_id, node.name)
        found == \E k \in 1..Len(env.classes) : env.classes[k].id = class_id
        edges == inheritance_edges(node, env.file_path, env.module_id)
    IN extract_nodes(node.body, env,
                     IF found THEN Append(scope_stack, [kind |-> "ClassInfo", id |-> class_id])
                     ELSE scope_stack,
                     [st EXCEPT !.relationships = @ \o edges])

\* the nearest class of the scope stack: for scope in reversed(scope_stack)
nearest_class(scope_stack) ==
    LET at == {k \in 1..Len(scope_stack) : scope_stack[k].kind = "ClassInfo"}
    IN IF at = {} THEN None
       ELSE scope_stack[CHOOSE k \in at : \A j \in at : j <= k].id

\* ReferenceExtractor._visit_function_def: current_method is set on the way
\* in and cleared, not restored, on the way out
extract_function_def(node, env, scope_stack, st) ==
    LET method_id == create_method_id(nearest_class(scope_stack), node.name, node.lineno)
        found == \E k \in 1..Len(env.methods) : env.methods[k].id = method_id
        after == extract_nodes(node.body, env,
                     IF found THEN Append(scope_stack, [kind |-> "MethodInfo", id |-> method_id])
                     ELSE scope_stack,
                     IF found THEN [st EXCEPT !.current_method = method_id] ELSE st)
    IN IF found THEN [after EXCEPT !.current_method = None] ELSE after

\* _visit_function_def restoring the enclosing method on the way out
extract_function_def_restoring(node, env, scope_stack, st) ==
    LET method_id == create_method_id(nearest_class(scope_stack), node.name, node.lineno)
        found == \E k \in 1..Len(env.methods) : env.methods[k].id = method_id
        after == extract_nodes(node.body, env,
                     IF found THEN Append(scope_stack, [kind |-> "MethodInfo", id |-> method_id])
                     ELSE scope_stack,
                     IF found THEN [st EXCEPT !.current_method = method_id] ELSE st)
    IN IF found THEN [after EXCEPT !.current_method = st.current_method] ELSE after

\* ReferenceExtractor.visit_Call: a call relationship when a method is
\* current
extract_Call(node, env, st) ==
    IF st.current_method = None THEN st
    ELSE [st EXCEPT !.relationships =
            Append(@, [id |-> create_relationship_id(st.current_method, node.name, "call"),
                       from_entity |-> st.current_method,
                       to_entity |-> node.name,
                       relationship_type |-> "call",
                       line_number |-> node.lineno,
                       file_path |-> env.file_path])]

extract_node(node, env, scope_stack, st) ==
    CASE node.kind = "ClassDef"    -> extract_ClassDef(node, env, scope_stack, st)
      [] node.kind = "FunctionDef" -> extract_function_def(node, env, scope_stack, st)
      [] node.kind = "Call"        -> extract_Call(node, env, st)
      [] OTHER                     -> st

\* NodeVisitor.generic_visit: the children in source order
extract_nodes(nodes, env, scope_stack, st) ==
    IF nodes = <<>> THEN st
    ELSE extract_nodes(Tail(nodes), env, scope_stack,
                       extract_node(Head(nodes), env, scope_stack, st))

\* ReferenceExtractor(symbol_table).visit(tree), then its relationships
extract_body(nodes, file_path, module_id) ==
    LET tab == visit_body(nodes, file_path,
                          [module_id |-> module_id, current_class |-> None,
                           scope_stack |-> <<>>],
                          EmptyTable)
        env == [module_id |-> module_id, file_path |-> file_path,
                classes |-> tab.classes, methods |-> tab.methods]
    IN extract_nodes(nodes, env, <<>>,
                     [relationships |-> <<>>, current_method |-> None]).relationships

(***************************************************************************)
(* ast_analyzer.py: ASTAnalyzer.analyze_file                               *)
(***************************************************************************)
\* what analyze_file returns when reading the file raises (except Exception)
NoAnalysis == [parse_error |-> "None"]

\* analyze_file without its except SyntaxError branch: the syntax error is
\* caught by except Exception
analyze_file_without_syntax_branch(p, c) ==
    IF c = NoFile \/ c = Undecodable \/ c = Denied \/ c = BadSyntax THEN NoAnalysis
    ELSE LET module_id == create_module_id(get_module_name(p))
             tab == SymbolTableBuilder(p, SyntaxTree(c))
         IN [file_path |-> p,
             module_info |-> [id |-> module_id, name |-> get_module_name(p),
                              file_path |-> PathStr(p), imports |-> tab.imports,
                              count |-> 1],
             classes |-> tab.classes, methods |-> tab.methods, fields |-> tab.fields,
             imports |-> tab.imports,
             relationships |-> extract_body(SyntaxTree(c), PathStr(p), module_id),
             parse_error |-> None]

\* analyze_file once ast.parse has returned the tree: the two passes and the
\* FileAnalysis made of them
analyze_tree(p, syntax_tree) ==
    LET module_name == get_module_name(p)
        module_id == create_module_id(module_name)
        tab == SymbolTableBuilder(p, syntax_tree)
    IN [file_path |-> p,
        module_info |-> [id |-> module_id,
                         name |-> module_name,
                         file_path |-> PathStr(p),
                         imports |-> tab.imports,
                         count |-> 1],
        classes |-> tab.classes, methods |-> tab.methods, fields |-> tab.fields,
        imports |-> tab.imports,
        relationships |-> extract_body(syntax_tree, PathStr(p), module_id),
        parse_error |-> None]

\* The FileAnalysis of file p holding content c.  file_path is kept as the
\* path record (PathStr gives its string); a module name is the sequence of
\* its dot-separated segments; module_info.count is 1 for a file (FileGen
\* below has the only other value).
analyze_file(p, c) ==
    LET module_name == get_module_name(p)
        module_id == create_module_id(module_name)
        module_info == [id |-> module_id,
                        name |-> module_name,
                        file_path |-> PathStr(p),
                        imports |-> <<>>,
                        count |-> 1]
    IN IF c = NoFile \/ c = Undecodable \/ c = Denied THEN NoAnalysis
       ELSE IF c = BadSyntax
       THEN [file_path |-> p, module_info |-> module_info,
             classes |-> <<>>, methods |-> <<>>, fields |-> <<>>, imports |-> <<>>,
             relationships |-> <<>>, parse_error |-> "invalid syntax"]
       ELSE analyze_tree(p, SyntaxTree(c))

(***************************************************************************)
(* A project too large to list file by file                                *)
(***************************************************************************)
\* The directory /proj/gen holds `count` generated modules m1.py, m2.py, ...,
\* all empty.  A listing holds them as one entry with that count, and the
\* analyses and ModuleInfos made from them are likewise one record with
\* count > 1: it stands for `count` consecutive records that differ in the
\* module number only.
FileGen == [dirs |-> <<"/", "proj", "gen">>, stem |-> "m*"]

\* number of generated modules when the project has them
GeneratedModules == 5001

\* len() of a list of entries or ModuleInfos that may hold such a run
RECURSIVE CountLen(_)
CountLen(s) == IF s = <<>> THEN 0 ELSE Head(s).count + CountLen(Tail(s))

\* s[:n] of such a list
RECURSIVE CountTake(_, _)
CountTake(s, n) ==
    IF s = <<>> \/ n <= 0 THEN <<>>
    ELSE IF Head(s).count <= n THEN <<Head(s)>> \o CountTake(Tail(s), n - Head(s).count)
    ELSE <<[Head(s) EXCEPT !.count = n]>>

\* the entry of a listing: a file, or the run of generated modules
Entry(p, n) == [path |-> p, count |-> n]

\* analyze_file on an entry, given the tree's contents
analyze_entry(e, contents) ==
    IF e.path = FileGen
    THEN LET fa == analyze_file(FileGen, 1)
         IN [fa EXCEPT !.module_info.count = e.count]
    ELSE analyze_file(e.path, contents[e.path])

(***************************************************************************)
(* legacy_bridge.py: LegacyBridge.merge_with_ast_analysis                  *)
(***************************************************************************)
\* LegacyBridge._normalize_module_name: separators become dots (already
\* segment boundaries here) and a trailing ".py" is cut
normalize_module_name(module_name) ==
    LET n == Len(module_name)
    IN IF n > 1 /\ module_name[n] = "py" THEN SubSeq(module_name, 1, n - 1) ELSE module_name

\* the keys of {normalized name: analysis for analysis in ast_analyses}, in
\* insertion order
RECURSIVE ast_map_keys(_, _)
ast_map_keys(ast_analyses, seen) ==
    IF ast_analyses = <<>> THEN <<>>
    ELSE LET name == normalize_module_name(Head(ast_analyses).module_info.name)
         IN IF name \in seen THEN ast_map_keys(Tail(ast_analyses), seen)
            ELSE <<name>> \o ast_map_keys(Tail(ast_analyses), seen \cup {name})

\* ast_map[name]: the last analysis of that module name
ast_map_get(ast_analyses, name) ==
    LET hits == {k \in 1..Len(ast_analyses) :
                    normalize_module_name(ast_analyses[k].module_info.name) = name}
    IN ast_analyses[CHOOSE k \in hits : \A j \in hits : j <= k]

\* LegacyBridge._merge_module_info
merge_module_info(pydeps_module, ast_analyses) ==
    IF \E k \in 1..Len(ast_analyses) :
          normalize_module_name(ast_analyses[k].module_info.name) = pydeps_module.name
    THEN [pydeps_module EXCEPT
             !.file_path = ast_map_get(ast_analyses, pydeps_module.name).module_info.file_path,
             !.imports = ast_map_get(ast_analyses, pydeps_module.name).module_info.imports]
    ELSE pydeps_module

merge_with_ast_analysis(packages, modules, pydeps_relationships, ast_analyses) ==
    LET module_names == {modules[k].name : k \in 1..Len(modules)}
        keys == ast_map_keys(ast_analyses, {})
        ast_only == SelectSeq(keys, LAMBDA name : name \notin module_names)
        merged_modules ==
            [k \in 1..Len(modules) |-> merge_module_info(modules[k], ast_analyses)]
            \o [k \in 1..Len(ast_only) |-> ast_map_get(ast_analyses, ast_only[k]).module_info]
        all_relationships ==
            pydeps_relationships
            \o Flatten([k \in 1..Len(ast_analyses) |-> ast_analyses[k].relationships])
            \o Flatten([k \in 1..Len(ast_only) |->
                          ast_map_get(ast_analyses, ast_only[k]).relationships])
    IN [packages |-> packages, modules |-> merged_modules, relationships |-> all_relationships]

(***************************************************************************)
(* analyzer_engine.py: cycle detection                                     *)
(***************************************************************************)
\* The elements of a set in the order a Python `for` yields them.  A set of
\* strings is iterated in the order of the hashes of this process
\* (PYTHONHASHSEED): h lists the possible elements in that order.  A set of
\* at most one element has one order only.
Iter(S, h) ==
    IF S = {} THEN <<>>
    ELSE IF Cardinality(S) = 1 THEN <<CHOOSE x \in S : TRUE>>
    ELSE SelectSeq(h, LAMBDA x : x \in S)

\* reversed(s)
Reverse(s) == [k \in 1..Len(s) |-> s[Len(s) + 1 - k]]

\* A directed graph as the detectors hold it, a dict of sets: keys is the
\* dict's key order (insertion order), adj[n] the set graph[n].
EmptyGraph == [keys |-> <<>>, adj |-> <<>>]

\* graph.get(n, set())
Neighbours(graph, n) == IF n \in DOMAIN graph.adj THEN graph.adj[n] ELSE {}

\* graph.setdefault(src, set()), then graph[src].add(t) for t in targets
add_edges(graph, src, targets) ==
    IF src \in DOMAIN graph.adj
    THEN [graph EXCEPT !.adj[src] = @ \cup targets]
    ELSE [keys |-> Append(graph.keys, src),
          adj |-> [n \in DOMAIN graph.adj \cup {src} |->
                     IF n = src THEN targets ELSE graph.adj[n]]]

\* transpose.get(n, set()): the keys of the graph that have an edge to n
TransposeNeighbours(graph, n) == {u \in DOMAIN graph.adj : n \in graph.adj[u]}

RECURSIVE dfs1(_, _, _, _, _)
RECURSIVE dfs1_neighbours(_, _, _, _, _)

\* dfs1 of the first pass: st is [visited, order]; into_sinks tells whether
\* the walk enters neighbours that are no key of the graph
dfs1(graph, h, n, st, into_sinks) ==
    With(dfs1_neighbours(graph, h, Iter(Neighbours(graph, n), h),
                         [st EXCEPT !.visited = @ \cup {n}], into_sinks),
         LAMBDA after : [after EXCEPT !.order = Append(@, n)])

\* the loop over the neighbours of dfs1
dfs1_neighbours(graph, h, nbs, st, into_sinks) ==
    IF nbs = <<>> THEN st
    ELSE With(st, LAMBDA s :
           dfs1_neighbours(graph, h, Tail(nbs),
               IF /\ Head(nbs) \notin s.visited
                  /\ (into_sinks \/ Head(nbs) \in DOMAIN graph.adj)
               THEN dfs1(graph, h, Head(nbs), s, into_sinks)
               ELSE s,
               into_sinks))

\* `for n in list(graph.keys()): if n not in visited: dfs1(n)`
RECURSIVE finish_order(_, _, _, _, _)
finish_order(graph, h, nodes, st, into_sinks) ==
    IF nodes = <<>> THEN st.order
    ELSE With(st, LAMBDA s :
           finish_order(graph, h, Tail(nodes),
               IF Head(nodes) \notin s.visited
               THEN dfs1(graph, h, Head(nodes), s, into_sinks)
               ELSE s,
               into_sinks))

RECURSIVE dfs2(_, _, _, _)
RECURSIVE dfs2_neighbours(_, _, _, _)

\* dfs2 on the transposed graph: st is [visited, comp]
dfs2(graph, h, n, st) ==
    dfs2_neighbours(graph, h, Iter(TransposeNeighbours(graph, n), h),
                    [visited |-> st.visited \cup {n}, comp |-> Append(st.comp, n)])

dfs2_neighbours(graph, h, nbs, st) ==
    IF nbs = <<>> THEN st
    ELSE With(st, LAMBDA s :
           dfs2_neighbours(graph, h, Tail(nbs),
               IF Head(nbs) \notin s.visited THEN dfs2(graph, h, Head(nbs), s) ELSE s))

\* `for n in reversed(order): if n not in visited: comp = []; dfs2(n, comp)`:
\* the components in the order they are found, each in visiting order
RECURSIVE components_in(_, _, _, _)
components_in(graph, h, nodes, visited) ==
    IF nodes = <<>> THEN <<>>
    ELSE IF Head(nodes) \in visited THEN components_in(graph, h, Tail(nodes), visited)
    ELSE With(dfs2(graph, h, Head(nodes), [visited |-> visited, comp |-> <<>>]),
              LAMBDA st : <<st.comp>> \o components_in(graph, h, Tail(nodes), st.visited))

\* both passes of the strongly-connected-components search
strong_components(graph, h, into_sinks) ==
    With(finish_order(graph, h, graph.keys, [visited |-> {}, order |-> <<>>], into_sinks),
         LAMBDA order : components_in(graph, h, Reverse(order), {}))

\* the edge records of one component: for u in comp, for v in graph[u], if v in comp
component_paths(graph, h, comp) ==
    Flatten([i \in 1..Len(comp) |->
        LET targets == SelectSeq(Iter(Neighbours(graph, comp[i]), h),
                                 LAMBDA v : v \in Range(comp))
        IN [j \in 1..Len(targets) |->
              [from |-> create_module_id(comp[i]), to |-> create_module_id(targets[j]),
               relationship_type |-> "import"]]])

\* a cycle record of the detectors: the dict keys 'id', 'entities', 'paths',
\* 'cycle_type', 'severity' and metrics['detection_method']; paths is <<>>
\* and detection_method None where the detector gives none
CycleInfo(id, entities, paths, cycle_type, severity, detection_method) ==
    [id |-> id, entities |-> entities, paths |-> paths, cycle_type |-> cycle_type,
     severity |-> severity, detection_method |-> detection_method]

\* the graph loop of _detect_import_cycles_from_modules: a key per module
\* name, an edge per imported name
RECURSIVE module_import_graph(_, _)
module_import_graph(modules, graph) ==
    IF modules = <<>> THEN graph
    ELSE LET m == Head(modules)
         IN module_import_graph(Tail(modules),
                add_edges(graph, m.name, {m.imports[k].module : k \in 1..Len(m.imports)}))

\* AnalyzerEngine._detect_import_cycles_from_modules
detect_import_cycles_from_modules(modules, h) ==
    LET graph == module_import_graph(modules, EmptyGraph)
        found == SelectSeq(strong_components(graph, h, FALSE), LAMBDA comp : Len(comp) >= 2)
    IN [k \in 1..Len(found) |->
          CycleInfo("mod_import_cycle_" \o ToString(k - 1),
                    [i \in 1..Len(found[k]) |-> create_module_id(found[k][i])],
                    component_paths(graph, h, found[k]),
                    "import",
                    IF Len(found[k]) > 3 THEN "high" ELSE "medium",
                    "module_list")]

\* AnalyzerEngine._file_path_to_module_name: the base name without ".py"
file_path_to_module_name(p) == <<p.stem>>

\* AnalyzerEngine._resolve_import_name: leading dots are stripped (no
\* segment of the model starts with one)
resolve_import_name(import_name) == import_name

\* the graph loop of _detect_import_cycles_from_ast
RECURSIVE ast_import_graph(_, _)
ast_import_graph(ast_analyses, graph) ==
    IF ast_analyses = <<>> THEN graph
    ELSE LET analysis == Head(ast_analyses)
         IN ast_import_graph(Tail(ast_analyses),
                add_edges(graph, file_path_to_module_name(analysis.file_path),
                          {resolve_import_name(analysis.imports[k].module) :
                             k \in 1..Len(analysis.imports)}))

\* AnalyzerEngine._detect_import_cycles_from_ast
detect_import_cycles_from_ast(ast_analyses, h) ==
    LET graph == ast_import_graph(ast_analyses, EmptyGraph)
        found == SelectSeq(strong_components(graph, h, FALSE),
                           LAMBDA comp : \/ Len(comp) >= 2
                                         \/ /\ Len(comp) = 1
                                            /\ comp[1] \in Neighbours(graph, comp[1]))
    IN [k \in 1..Len(found) |->
          IF Len(found[k]) >= 2
          THEN CycleInfo("ast_import_cycle_" \o ToString(k - 1),
                         [i \in 1..Len(found[k]) |-> create_module_id(found[k][i])],
                         component_paths(graph, h, found[k]),
                         "import",
                         IF Len(found[k]) > 3 THEN "high" ELSE "medium",
                         "ast")
          ELSE CycleInfo("ast_import_cycle_" \o ToString(k - 1),
                         <<create_module_id(found[k][1])>>,
                         <<[from |-> create_module_id(found[k][1]),
                            to |-> create_module_id(found[k][1]),
                            relationship_type |-> "import"]>>,
                         "import",
                         "medium",
                         "ast")]

\* the graph loop of _detect_detailed_cycles and _detect_cycles_by_type: an
\* edge per relationship, whatever its type
RECURSIVE relationship_graph(_, _)
relationship_graph(relationships, graph) ==
    IF relationships = <<>> THEN graph
    ELSE relationship_graph(Tail(relationships),
             add_edges(graph, Head(relationships).from_entity,
                       {Head(relationships).to_entity}))

RECURSIVE has_cycle(_, _, _, _)
RECURSIVE has_cycle_neighbours(_, _, _, _)

\* has_cycle of _detect_detailed_cycles: the path from the first visit of
\* node to its second one, both included; <<>> is None
has_cycle(graph, h, node, path) ==
    IF node \in Range(path)
    THEN LET cycle_start == CHOOSE i \in 1..Len(path) : path[i] = node
         IN SubSeq(path, cycle_start, Len(path)) \o <<node>>
    ELSE IF node \notin DOMAIN graph.adj THEN <<>>
    ELSE has_cycle_neighbours(graph, h, Iter(graph.adj[node], h), Append(path, node))

has_cycle_neighbours(graph, h, nbs, path) ==
    IF nbs = <<>> THEN <<>>
    ELSE With(has_cycle(graph, h, Head(nbs), path), LAMBDA cycle :
           IF cycle # <<>> THEN cycle ELSE has_cycle_neighbours(graph, h, Tail(nbs), path))

\* AnalyzerEngine._detect_detailed_cycles (visited stays empty: every key of
\* the graph is a start node)
detect_detailed_cycles(relationships, h) ==
    LET graph == relationship_graph(relationships, EmptyGraph)
        walks == [k \in 1..Len(graph.keys) |-> has_cycle(graph, h, graph.keys[k], <<>>)]
        found == SelectSeq(walks, LAMBDA cycle : cycle # <<>>)
    IN [k \in 1..Len(found) |->
          CycleInfo("detailed_cycle_" \o ToString(k - 1), found[k], <<>>, "call",
                    IF Len(found[k]) <= 2 THEN "low" ELSE "medium",
                    None)]

\* cycle_paths of _detect_cycles_by_type: the edge from each entity of the
\* component to the next one in the list (the first again after the last),
\* where the graph has it
ring_paths(graph, component, cycle_type) ==
    LET n == Len(component)
        hits == SelectSeq([i \in 1..n |-> i],
                          LAMBDA i : component[(i % n) + 1] \in Neighbours(graph, component[i]))
    IN [j \in 1..Len(hits) |->
          [from |-> component[hits[j]], to |-> component[(hits[j] % n) + 1],
           relationship_type |-> cycle_type]]

\* AnalyzerEngine._detect_cycles_by_type (no caller in src/; its dfs1 also
\* walks into nodes that are no key of the graph)
detect_cycles_by_type(relationships, cycle_type, h) ==
    LET graph == relationship_graph(relationships, EmptyGraph)
        found == SelectSeq(strong_components(graph, h, TRUE), LAMBDA comp : Len(comp) > 1)
    IN [k \in 1..Len(found) |->
          CycleInfo(cycle_type \o "_cycle_" \o ToString(k - 1),
                    found[k],
                    ring_paths(graph, found[k], cycle_type),
                    cycle_type,
                    IF cycle_type = "import"
                    THEN (IF Len(found[k]) > 3 THEN "high" ELSE "medium")
                    ELSE (IF Len(found[k]) <= 2 THEN "low" ELSE "medium"),
                    None)]

(***************************************************************************)
(* legacy_bridge.py: the pydeps graph and its conversion                   *)
(***************************************************************************)
\* A pydeps Source: the module's dotted name (name_parts), the names it
\* imports and its two degree properties.  pydeps' graph code is no part of
\* src/, so a DepGraph is an input: its sources in dict order and the cycles
\* pydeps found, each a list of Sources.
Source(name, imports, in_degree, out_degree) ==
    [name |-> name, imports |-> imports, in_degree |-> in_degree, out_degree |-> out_degree]

DepGraph(sources, cycles) == [sources |-> sources, cycles |-> cycles]

\* Source.module_depth: the number of dots of the name
module_depth(source) == Len(source.name) - 1

\* LegacyBridge._convert_source_to_module
convert_source_to_module(source) ==
    [id |-> create_module_id(source.name),
     name |-> source.name,
     file_path |-> "",
     imports |-> [k \in 1..Len(source.imports) |->
                    [module |-> source.imports[k], line_number |-> 0]],
     count |-> 1]

\* LegacyBridge._create_package_info
create_package_info(package_name) == [id |-> create_package_id(package_name), name |-> package_name]

\* the package loop of convert_pydeps_to_modules: one package per first
\* segment of a source of module_depth > 0, in order of first appearance
RECURSIVE convert_packages(_, _)
convert_packages(sources, seen_packages) ==
    IF sources = <<>> THEN <<>>
    ELSE LET name == Head(sources).name
         IN IF module_depth(Head(sources)) > 0 /\ name[1] \notin seen_packages
            THEN <<create_package_info(name[1])>>
                 \o convert_packages(Tail(sources), seen_packages \cup {name[1]})
            ELSE convert_packages(Tail(sources), seen_packages)

\* LegacyBridge._convert_dependencies_to_relationships: an import
\* relationship per imported name that is a source of the graph
convert_dependencies_to_relationships(dep_graph) ==
    LET names == {dep_graph.sources[k].name : k \in 1..Len(dep_graph.sources)}
    IN Flatten([k \in 1..Len(dep_graph.sources) |->
          LET source == dep_graph.sources[k]
              known == SelectSeq(source.imports, LAMBDA imported_name : imported_name \in names)
              from_module_id == create_module_id(source.name)
          IN [j \in 1..Len(known) |->
                [id |-> create_relationship_id(from_module_id, create_module_id(known[j]),
                                               "import"),
                 from_entity |-> from_module_id,
                 to_entity |-> create_module_id(known[j]),
                 relationship_type |-> "import",
                 line_number |-> 0,
                 file_path |-> ""]]])

\* LegacyBridge.convert_pydeps_to_modules
convert_pydeps_to_modules(dep_graph) ==
    [packages |-> convert_packages(dep_graph.sources, {}),
     modules |-> [k \in 1..Len(dep_graph.sources) |->
                    convert_source_to_module(dep_graph.sources[k])],
     relationships |-> convert_dependencies_to_relationships(dep_graph)]

\* Strengths are multiples of 1/StrengthUnit, so that the products of
\* _calculate_relationship_strength are exact for degrees up to 3.
StrengthUnit == 1200

\* the cap min(strength, 5.0)
StrengthCap == 5 * StrengthUnit

\* len of the common prefix of two name_parts
RECURSIVE common_prefix_len(_, _)
common_prefix_len(s, t) ==
    IF s = <<>> \/ t = <<>> \/ Head(s) # Head(t) THEN 0
    ELSE 1 + common_prefix_len(Tail(s), Tail(t))

\* LegacyBridge._calculate_relationship_strength, in units of 1/StrengthUnit:
\* 1.0 * (1 + 1/in_degree) * (1 + 0.1 out_degree) * (1 + 0.5 prefix) * depth bonus
calculate_relationship_strength(source, target) ==
    LET cpl == common_prefix_len(source.name, target.name)
        depth_diff == IF module_depth(source) >= module_depth(target)
                      THEN module_depth(source) - module_depth(target)
                      ELSE module_depth(target) - module_depth(source)
        by_in == IF source.in_degree > 0
                 THEN (source.in_degree + 1) * (6 \div source.in_degree)
                 ELSE 6
        by_out == IF target.out_degree > 0 THEN 10 + target.out_degree ELSE 10
        by_prefix == IF cpl > 0 THEN 2 + cpl ELSE 2
        by_depth == IF depth_diff = 0 THEN 12 ELSE IF depth_diff = 1 THEN 11 ELSE 10
        strength == by_in * by_out * by_prefix * by_depth
    IN IF strength < StrengthCap THEN strength ELSE StrengthCap

RECURSIVE Sum(_)
\* sum(values)
Sum(values) == IF values = <<>> THEN 0 ELSE Head(values) + Sum(Tail(values))

\* the severity rule of detect_cycles_from_pydeps; avg_strength is
\* sum/len of the strengths, or 1.0 when there is none
pydeps_cycle_severity(length, cycle_strengths) ==
    LET n == Len(cycle_strengths)
        \* avg_strength < bound
        AvgBelow(bound) == IF n > 0 THEN Sum(cycle_strengths) < bound * StrengthUnit * n
                           ELSE 1 < bound
    IN IF length <= 2 THEN (IF AvgBelow(2) THEN "low" ELSE "medium")
       ELSE IF length <= 4 THEN (IF AvgBelow(3) THEN "medium" ELSE "high")
       ELSE "high"

\* LegacyBridge.detect_cycles_from_pydeps
detect_cycles_from_pydeps(dep_graph) ==
    [i \in 1..Len(dep_graph.cycles) |->
        LET cycle == dep_graph.cycles[i]
            n == Len(cycle)
            hits == SelectSeq([j \in 1..n |-> j],
                              LAMBDA j : cycle[(j % n) + 1].name \in Range(cycle[j].imports))
            cycle_strengths == [k \in 1..Len(hits) |->
                calculate_relationship_strength(cycle[hits[k]], cycle[(hits[k] % n) + 1])]
        IN CycleInfo("cycle_" \o ToString(i - 1),
                     [j \in 1..n |-> create_module_id(cycle[j].name)],
                     [k \in 1..Len(hits) |->
                        [from |-> create_module_id(cycle[hits[k]].name),
                         to |-> create_module_id(cycle[(hits[k] % n) + 1].name),
                         relationship_type |-> "import"]],
                     "import",
                     pydeps_cycle_severity(n, cycle_strengths),
                     None)]

\* the dict _run_pydeps_analysis returns for a graph; for the empty graph it
\* is also what it returns when pydeps raises
run_pydeps_analysis(dep_graph) ==
    [packages |-> convert_pydeps_to_modules(dep_graph).packages,
     modules |-> convert_pydeps_to_modules(dep_graph).modules,
     relationships |-> convert_pydeps_to_modules(dep_graph).relationships,
     cycles |-> detect_cycles_from_pydeps(dep_graph)]

\* _create_empty_depgraph: the graph analyze_with_pydeps falls back to
EmptyDepGraph == DepGraph(<<>>, <<>>)

\* The module lists pydeps may report for a tree without imports
PydepsSources ==
    {<<>>,
     <<Source(<<"a">>, <<>>, 0, 0)>>,
     <<Source(<<"a">>, <<>>, 0, 0), Source(<<"proj", "b">>, <<>>, 0, 0)>>}

(***************************************************************************)
(* analyzer_engine.py: integration and assembly                            *)
(***************************************************************************)
\* the hash order of the module ids, given that of the module names
IdOrder(h) == [k \in 1..Len(h) |-> create_module_id(h[k])]

\* AnalyzerEngine._integrate_analyses
integrate_analyses(pydeps_result, ast_analyses, h) ==
    With(merge_with_ast_analysis(pydeps_result.packages, pydeps_result.modules,
                                 pydeps_result.relationships, ast_analyses),
         LAMBDA merged :
       [packages |-> merged.packages,
        modules |-> merged.modules,
        classes |-> Flatten([k \in 1..Len(ast_analyses) |-> ast_analyses[k].classes]),
        methods |-> Flatten([k \in 1..Len(ast_analyses) |-> ast_analyses[k].methods]),
        fields |-> Flatten([k \in 1..Len(ast_analyses) |-> ast_analyses[k].fields]),
        relationships |-> merged.relationships,
        cycles |-> pydeps_result.cycles
                   \o detect_detailed_cycles(merged.relationships, IdOrder(h))
                   \o detect_import_cycles_from_ast(ast_analyses, h)
                   \o detect_import_cycles_from_modules(merged.modules, h)])

\* the CyclicDependency _assemble_result makes of a cycle record: the
\* edges are not carried over
CyclicDependency(cycle_dict) ==
    [id |-> cycle_dict.id, entities |-> cycle_dict.entities,
     cycle_type |-> cycle_dict.cycle_type, severity |-> cycle_dict.severity]

\* AnalyzerEngine._assemble_result
assemble_result(analysis_id, total_files, now, integrated_data) ==
    [analysis_id |-> analysis_id,
     project_info |-> [analyzed_at |-> now, total_files |-> total_files],
     dependency_graph |-> [packages |-> integrated_data.packages,
                           modules |-> integrated_data.modules,
                           classes |-> integrated_data.classes,
                           methods |-> integrated_data.methods,
                           fields |-> integrated_data.fields],
     relationships |-> integrated_data.relationships,
     cycles |-> [k \in 1..Len(integrated_data.cycles) |->
                   CyclicDependency(integrated_data.cycles[k])]]

\* the caps of _assemble_large_project_result
MaxLargeModules == 1000
MaxLargeClasses == 2000
MaxLargeMethods == 5000
MaxLargeFields == 5000
MaxLargeRelationships == 1000

\* AnalyzerEngine._integrate_large_project_data
integrate_large_project_data(all_analyses) ==
    [packages |-> <<>>,
     modules |-> [k \in 1..Len(all_analyses) |->
                    [id |-> create_module_id_of_path(all_analyses[k].file_path),
                     name |-> <<all_analyses[k].file_path.stem>>,
                     file_path |-> PathStr(all_analyses[k].file_path),
                     imports |-> all_analyses[k].imports,
                     count |-> all_analyses[k].module_info.count]],
     classes |-> Flatten([k \in 1..Len(all_analyses) |-> all_analyses[k].classes]),
     methods |-> Flatten([k \in 1..Len(all_analyses) |-> all_analyses[k].methods]),
     fields |-> Flatten([k \in 1..Len(all_analyses) |-> all_analyses[k].fields]),
     relationships |-> <<>>,
     cycles |-> <<>>]

\* AnalyzerEngine._assemble_large_project_result
assemble_large_project_result(analysis_id, total_files, now, integrated_data) ==
    [analysis_id |-> analysis_id,
     project_info |-> [analyzed_at |-> now, total_files |-> total_files],
     dependency_graph |-> [packages |-> integrated_data.packages,
                           modules |-> CountTake(integrated_data.modules, MaxLargeModules),
                           classes |-> Take(integrated_data.classes, MaxLargeClasses),
                           methods |-> Take(integrated_data.methods, MaxLargeMethods),
                           fields |-> Take(integrated_data.fields, MaxLargeFields)],
     relationships |-> Take(integrated_data.relationships, MaxLargeRelationships),
     cycles |-> integrated_data.cycles]

(***************************************************************************)
(* The trees the orchestrator is run on                                    *)
(***************************************************************************)
SmallFiles == {FileA, FileB, FilePkgA}

\* a small tree: any content, or no file, at each of the three paths
SmallTrees == [SmallFiles -> 0..Undecodable]

\* files of the project root beyond the sequential limit of _run_ast_analysis
ParallelThreshold == 10

WideCount == ParallelThreshold + 1

FileW(k) == [dirs |-> ProjectRoot, stem |-> (IF k < 10 THEN "w0" ELSE "w") \o ToString(k)]

\* a wide tree: /proj/w01.py .. /proj/w11.py, classes and functions alternating
WideTree == [p \in {FileW(k) : k \in 1..WideCount} |->
               IF (CHOOSE k \in 1..WideCount : FileW(k) = p) % 2 = 1 THEN 2 ELSE 3]

\* all path strings of the model in ascending (code point) order
SortedPaths ==
    <<FileA, FileB, FileGen, FilePkgA, FilePkgB, FilePkgC, FilePkgD>>
    \o [k \in 1..WideCount |-> FileW(k)]

path_rank(p) == CHOOSE k \in 1..Len(SortedPaths) : SortedPaths[k] = p

\* the files of directory dirs that exist in the tree
FilesIn(contents, dirs) == {p \in DOMAIN contents : p.dirs = dirs /\ contents[p] # NoFile}

\* The orders in which os.walk may list one directory's files.  A directory of
\* up to two files is listed in either order, a larger one in ascending order.
ListingOrders(S) ==
    IF Cardinality(S) <= 2 THEN Perms(S)
    ELSE {[k \in 1..Cardinality(S) |->
             CHOOSE p \in S : Cardinality({q \in S : path_rank(q) < path_rank(p)}) = k - 1]}

(***************************************************************************)
(* gitignore_patterns.py: GitIgnorePatternMatcher                          *)
(***************************************************************************)
\* A pattern without wildcard: Plain("pkg") is the pattern "pkg",
\* Anchored("a.py") is "/a.py", Negated(q) is "!" before the pattern q.
Plain(text) == [form |-> "plain", text |-> text, negated |-> FALSE]

Anchored(text) == [form |-> "anchored", text |-> text, negated |-> FALSE]

Negated(pattern) == [pattern EXCEPT !.negated = TRUE]

\* GitIgnorePatternMatcher._match_name_parts on the parts of a relative
\* path: the whole path, its name or any of its parts is the pattern
match_name_parts(parts, text) ==
    \/ JoinWith(parts, "/") = text
    \/ parts[Len(parts)] = text
    \/ \E k \in 1..Len(parts) : parts[k] = text

\* GitIgnorePatternMatcher._match_pattern: fnmatch of a pattern without
\* wildcard is equality
match_pattern(parts, pattern) ==
    IF pattern.form = "anchored" THEN JoinWith(parts, "/") = pattern.text
    ELSE match_name_parts(parts, pattern.text)

\* GitIgnorePatternMatcher.should_exclude: some exclude pattern matches and
\* no "!" pattern does
should_exclude(parts, patterns) ==
    /\ \E k \in 1..Len(patterns) : ~patterns[k].negated /\ match_pattern(parts, patterns[k])
    /\ ~ \E k \in 1..Len(patterns) : patterns[k].negated /\ match_pattern(parts, patterns[k])

\* file_path_obj.relative_to(project_path_obj), by its parts
relative_file_path(p) ==
    SubSeq(p.dirs, Len(ProjectRoot) + 1, Len(p.dirs)) \o <<p.stem \o ".py">>

\* os.walk does not descend into p's directory: one of the directories from
\* the project root down to it was taken out of dirs[:]
in_pruned_directory(p, patterns) ==
    \E n \in (Len(ProjectRoot) + 1)..Len(p.dirs) :
        should_exclude(SubSeq(p.dirs, Len(ProjectRoot) + 1, n), patterns)

\* the files _discover_project_files keeps of a walk of the tree
kept_files(listing, patterns) ==
    SelectSeq(listing, LAMBDA e :
        /\ ~in_pruned_directory(e.path, patterns)
        /\ ~should_exclude(relative_file_path(e.path), patterns))

\* AnalysisOptions.exclude_patterns when none is given
DefaultExcludePatterns ==
    <<Plain("__pycache__"), Plain(".git"), Plain(".venv"), Plain("venv"), Plain("env"),
      Plain("tests")>>

\* the exclude_patterns a run is given
ExcludePatternSets ==
    {DefaultExcludePatterns,
     <<Plain("pkg")>>,
     <<Plain("gen")>>,
     <<Plain("a.py")>>,
     <<Anchored("a.py")>>,
     <<Plain("a.py"), Negated(Plain("pkg"))>>}

\* os.walk(project_path), top down: the root's files, then the
\* subdirectories gen and pkg in either order
WalkOrders(contents, generated) ==
    LET gen == IF generated > 0 THEN <<Entry(FileGen, generated)>> ELSE <<>>
        pkgs == ListingOrders(FilesIn(contents, <<"/", "proj", "pkg">>))
        roots == ListingOrders(FilesIn(contents, ProjectRoot))
        AsEntries(files) == [k \in 1..Len(files) |-> Entry(files[k], 1)]
    IN {AsEntries(r) \o gen \o AsEntries(q) : r \in roots, q \in pkgs}
       \cup {AsEntries(r) \o AsEntries(q) \o gen : r \in roots, q \in pkgs}

\* The trees with imports: the package /proj/pkg of up to four modules a, b,
\* c and d, each of which imports others (or itself) or nothing
CycleFiles == {FilePkgA, FilePkgB, FilePkgC, FilePkgD}

CycleTrees ==
    {t \in [CycleFiles -> {NoFile, 1} \cup {Importing(k) : k \in 1..Len(ImportPrograms)}] :
        /\ t[FilePkgA] \in {Importing(1), Importing(2), Importing(6)}
        /\ t[FilePkgB] \in {1, Importing(1), Importing(3), Importing(5)}
        /\ t[FilePkgC] \in {NoFile, 1, Importing(1), Importing(4)}
        /\ t[FilePkgD] \in {NoFile, Importing(1)}}

\* the module names of these trees
CycleModules == {<<"a">>, <<"b">>, <<"c">>, <<"d">>}

\* the names a file's program imports, in source order
imported_names(p, c) ==
    IF c \in {NoFile, BadSyntax, Undecodable, Denied} THEN <<>>
    ELSE LET imports == SymbolTableBuilder(p, SyntaxTree(c)).imports
         IN [k \in 1..Len(imports) |-> imports[k].module]

\* The DepGraph of a tree with imports when pydeps succeeds: a Source per
\* file, in ascending path order, with the imports of its program;
\* in_degree counts the imports and out_degree the sources that import the
\* module; the cycles are the pairs of sources that import each other.
tree_dep_graph(contents) ==
    LET files == SelectSeq(SortedPaths, LAMBDA p : p \in DOMAIN contents /\ contents[p] # NoFile)
        imports_of == [k \in 1..Len(files) |-> imported_names(files[k], contents[files[k]])]
        sources == [k \in 1..Len(files) |->
                      Source(get_module_name(files[k]),
                             imports_of[k],
                             Cardinality(Range(imports_of[k])),
                             Cardinality({j \in 1..Len(files) :
                                 get_module_name(files[k]) \in Range(imports_of[j])}))]
        pairs == SelectSeq([n \in 1..(Len(files) * Len(files)) |->
                              <<((n - 1) \div Len(files)) + 1, ((n - 1) % Len(files)) + 1>>],
                           LAMBDA ij : /\ ij[1] < ij[2]
                                       /\ sources[ij[2]].name \in Range(imports_of[ij[1]])
                                       /\ sources[ij[1]].name \in Range(imports_of[ij[2]]))
    IN DepGraph(sources, [k \in 1..Len(pairs) |-> <<sources[pairs[k][1]], sources[pairs[k][2]]>>])

\* What pydeps may report for a tree: pydeps is an external library, so its
\* graph is an input.  EmptyDepGraph is also the outcome when pydeps raises.
PydepsOutcomes(contents) ==
    IF DOMAIN contents = CycleFiles
    THEN {EmptyDepGraph, tree_dep_graph(contents)}
    ELSE {DepGraph(sources, <<>>) : sources \in PydepsSources}

(***************************************************************************)
(* performance_optimizer.py: LargeProjectAnalyzer                          *)
(***************************************************************************)
\* the file count above which analyze_project considers the large-project path
LargeProjectThreshold == 1000

\* the file counts above which estimate_project_size steps the complexity up
ComplexityMedium == 1000

ComplexityHigh == 5000

ComplexityVeryHigh == 10000

\* the 'complexity' of estimate_project_size for a tree of n Python files
estimate_complexity(n) ==
    IF n > ComplexityVeryHigh THEN "very_high"
    ELSE IF n > ComplexityHigh THEN "high"
    ELSE IF n > ComplexityMedium THEN "medium"
    ELSE "low"

\* optimized_ast_analysis over every batch of process_files_streaming: the
\* analyses of the listed files, in listing order, the failed ones left out
RECURSIVE analyze_all(_, _)
analyze_all(listing, contents) ==
    IF listing = <<>> THEN <<>>
    ELSE LET analysis == analyze_entry(Head(listing), contents)
         IN (IF analysis = NoAnalysis THEN <<>> ELSE <<analysis>>)
            \o analyze_all(Tail(listing), contents)

(***************************************************************************)
(* State                                                                   *)
(***************************************************************************)
\* One run of AnalyzerEngine.analyze_project without a cache, step by step
VARIABLES
    tree,                             \* the file tree: path -> content
    hash_order,                       \* the module names in the order of their hashes
    exclude_patterns,                 \* options.exclude_patterns
    generated,                        \* number of generated modules in /proj/gen
    max_workers,                      \* options.max_workers
    enable_performance_optimization,  \* options.enable_performance_optimization
    pc,                               \* where analyze_project stands
    current_analysis_id,              \* self.current_analysis_id
    project_files,                    \* the list _discover_project_files returned
    pydeps_result,                    \* what _run_pydeps_analysis returned
    ast_analyses,                     \* the list the AST stage is filling
    cursor,                           \* files handed to the extractor so far
    running,                          \* worker pool: indices of the tasks in flight
    integrated_data,                  \* what the integration stage returned
    result,                           \* the AnalysisResult returned
    progress,                         \* the updates given to the progress callback
    extracted,                        \* the entries handed to analyze_file so far
    route,                            \* "full", or the branch perform_incremental_analysis took
    incremental_files                 \* the file list perform_incremental_analysis was given

engine_vars == <<tree, hash_order, exclude_patterns, generated, max_workers, enable_performance_optimization, pc,
                 current_analysis_id, project_files, pydeps_result, ast_analyses,
                 cursor, running, integrated_data, result, progress, extracted,
                 route, incremental_files>>

\* Successive whole runs of analyze_project on a tree that is edited in between
VARIABLES
    fs,              \* the file system: path -> [content, mtime]
    enable_caching,  \* options.enable_caching
    cache_store,     \* the entry of ~/.pyview_cache for this project and options
    clock,           \* number of runs made so far
    edits,           \* number of edits of the tree so far
    last_run,        \* what the latest run did and returned
    prev_run         \* the same for the run before it

cache_vars == <<fs, enable_caching, cache_store, clock, edits, last_run, prev_run>>

\* A cycle detector applied to a list of relationships, outside a run
VARIABLES
    det_relationships,  \* the relationships handed to the detector
    det_order,          \* the entity ids in the order of their hashes
    det_applied,        \* the detectors that have returned
    det_detailed,       \* what _detect_detailed_cycles returned
    det_by_type         \* the cycle_type given to _detect_cycles_by_type and what
                        \* it returned

detector_vars == <<det_relationships, det_order, det_applied, det_detailed, det_by_type>>

\* no call of _detect_cycles_by_type yet
NotDetected == [cycle_type |-> None, cycles |-> <<>>]

\* A CacheManager over the cache directory, call by call
VARIABLES
    cache_dir,         \* the entry files <cache_id>.pkl of the cache directory
    cache_index_file,  \* cache_index.json on disk
    constructed,       \* a process holds a CacheManager
    cache_index,       \* self.cache_index: the keys of the index in memory
    memory_cache,      \* self.memory_cache
    cm_time,               \* the time, advanced by every call
    last_use,          \* per entry, the time get_cache last read it or save_cache
                       \* last wrote it
    index_created_at,  \* per key of the index, the 'created_at' of its record;
                       \* its 'expires_at' lies seven days later
    week_ago,          \* what was created up to this time is more than seven
                       \* days old by now
    cm_call            \* the latest call of the CacheManager and what it did

manager_vars == <<cache_dir, cache_index_file, constructed, cache_index, memory_cache,
                  cm_time, last_use, index_created_at, week_ago, cm_call>>

\* A GitIgnorePatternMatcher and the calls of its should_exclude
VARIABLES
    matcher,           \* the matcher constructed from a pattern list, if any
    checked            \* the latest call of should_exclude and what it returned

matcher_vars == <<matcher, checked>>

\* One source file given to ASTAnalyzer, outside a run
VARIABLES
    source,    \* the syntax tree of the file analysed
    file_analysis   \* the FileAnalysis returned for it

extractor_vars == <<source, file_analysis>>

\* One call of ParallelAnalyzer.process_parallel
VARIABLES
    par_pc,          \* "idle", "running", "returned" or "raised"
    total_tasks,     \* len(tasks); the tasks are numbered 1..total_tasks
    pool_workers,    \* self.max_workers
    pending_tasks,   \* the tasks not yet submitted, in list order
    future_to_task,  \* the tasks whose future is neither done nor removed
    results,         \* the tasks whose result was appended, in completion order
    submissions,     \* how many times executor.submit was called for each task
    saw_critical     \* is_memory_critical() answered True at a submission test

parallel_vars == <<par_pc, total_tasks, pool_workers, pending_tasks, future_to_task,
                   results, submissions, saw_critical>>

vars == <<engine_vars, cache_vars, detector_vars, manager_vars, matcher_vars, extractor_vars,
          parallel_vars>>

\* no matcher constructed
NoMatcher == [patterns |-> None]

\* no call of should_exclude yet
NoCheck == [path |-> None]

\* no pattern matcher is in use
MatcherIdle ==
    /\ matcher = NoMatcher
    /\ checked = NoCheck

\* no file has been given to the analyzer
ExtractorIdle ==
    /\ source = <<>>
    /\ file_analysis = NoAnalysis

\* process_parallel has not been called
ParallelIdle ==
    /\ par_pc = "idle"
    /\ total_tasks = 0
    /\ pool_workers = 1
    /\ pending_tasks = <<>>
    /\ future_to_task = {}
    /\ results = <<>>
    /\ submissions = <<>>
    /\ saw_critical = FALSE

\* the cache ids of two projects
CacheIds == {"k1", "k2"}

\* no file <cache_id>.pkl
NoEntryFile == [state |-> "absent", created_at |-> 0, st_mtime |-> 0]

\* no call made yet
NoCall == [op |-> "none", cache_id |-> None, outcome |-> "none", created_at |-> 0,
           removed |-> {}, kept |-> {}, used |-> <<>>]

\* no CacheManager is in use
ManagerIdle ==
    /\ cache_dir = <<>>
    /\ cache_index_file = [state |-> "absent", keys |-> {}]
    /\ constructed = FALSE
    /\ cache_index = {}
    /\ memory_cache = <<>>
    /\ cm_time = 0
    /\ last_use = <<>>
    /\ index_created_at = <<>>
    /\ week_ago = 0
    /\ cm_call = NoCall

\* no detector is applied outside a run
DetectorIdle ==
    /\ det_relationships = <<>>
    /\ det_order = <<>>
    /\ det_applied = {}
    /\ det_detailed = <<>>
    /\ det_by_type = NotDetected

(***************************************************************************)
(* analyzer_engine.py: one run of AnalyzerEngine.analyze_project, stepwise *)
(***************************************************************************)
\* str(uuid.uuid4()) of the n-th run: a fresh id at every call
uuid4(n) == "uuid-" \o ToString(n)

NoResult == [analysis_id |-> None]

MaxWorkers == 2

\* no entry in the cache directory
NoCache == [cache_id |-> None]

\* no run made yet
NoRun == [route |-> "none"]

EngineInit ==
    /\ DetectorIdle
    /\ ManagerIdle
    /\ MatcherIdle
    /\ ExtractorIdle
    /\ ParallelIdle
    /\ fs = <<>>
    /\ enable_caching = FALSE
    /\ cache_store = NoCache
    /\ clock = 0
    /\ edits = 0
    /\ last_run = NoRun
    /\ prev_run = NoRun
    /\ hash_order = <<>>
    /\ exclude_patterns = DefaultExcludePatterns
    /\ \/ /\ tree \in SmallTrees
          /\ generated \in {0, GeneratedModules}
          /\ max_workers = 1
          /\ enable_performance_optimization \in (IF generated > 0 THEN BOOLEAN ELSE {TRUE})
       \/ /\ tree = WideTree
          /\ generated = 0
          /\ max_workers \in 1..MaxWorkers
          /\ enable_performance_optimization = TRUE
    /\ pc = "idle"
    /\ current_analysis_id = None
    /\ project_files = <<>>
    /\ pydeps_result = run_pydeps_analysis(EmptyDepGraph)
    /\ ast_analyses = <<>>
    /\ cursor = 0
    /\ running = {}
    /\ integrated_data = <<>>
    /\ result = NoResult
    /\ progress = <<>>
    /\ extracted = <<>>
    /\ route = "full"
    /\ incremental_files = <<>>

\* progress_callback.update(stage, ...), `times` times in a row with the
\* file number in the stage text advancing
Update(stage, times) == [stage |-> stage, times |-> times]

\* analyze_project up to the end of stage 1: a fresh analysis id, the file list
DiscoverProjectFiles ==
    /\ pc = "idle"
    /\ current_analysis_id' = uuid4(1)
    /\ \E listing \in WalkOrders(tree, generated) :
          project_files' = kept_files(listing, exclude_patterns)
    /\ progress' = <<Update("Discovering project files", 1)>>
    /\ pc' = "discovered"
    /\ UNCHANGED <<cache_vars, detector_vars, manager_vars, matcher_vars, extractor_vars, parallel_vars>>
    /\ UNCHANGED <<tree, hash_order, exclude_patterns, generated, max_workers, enable_performance_optimization,
                   route, incremental_files,
                   pydeps_result, ast_analyses, cursor, running, integrated_data, result,
                   extracted>>

\* stage 1.2 of analyze_project asks for the size estimate
EstimatesSize ==
    /\ enable_performance_optimization
    /\ CountLen(project_files) > LargeProjectThreshold

\* the test of stage 1.2 of analyze_project
TakesLargePath ==
    /\ EstimatesSize
    /\ estimate_complexity(CountLen(project_files)) \in {"high", "very_high"}

\* PerformanceConfig(batch_size=100)
BatchSize == 100

\* s[n:] of a list of entries that may hold the run of generated modules
RECURSIVE CountDrop(_, _)
CountDrop(s, n) ==
    IF s = <<>> \/ n <= 0 THEN s
    ELSE IF Head(s).count <= n THEN CountDrop(Tail(s), n - Head(s).count)
    ELSE <<[Head(s) EXCEPT !.count = Head(s).count - n]>> \o Tail(s)

\* PerformanceConfig(max_file_size_mb=10), in bytes
MaxFileSizeBytes == 10 * 1024 * 1024

\* os.path.getsize of an entry: the generated modules are empty
getsize(e, contents) == IF e.path = FileGen THEN 0 ELSE file_size(contents[e.path])

\* the first loop of process_files_streaming: the paths whose size is within
\* the cap, in list order
filtered_paths(file_paths, contents) ==
    SelectSeq(file_paths, LAMBDA e : getsize(e, contents) <= MaxFileSizeBytes)

\* the batch loop of process_files_streaming under the loop of
\* _analyze_large_project: the batches are handed to optimized_ast_analysis
\* one after the other; the first analysis a batch yields is a FileAnalysis,
\* which all_analyses.extend() cannot iterate, so that the loop raises
\* TypeError.  handed: the entries given to analyze_file until then;
\* batches: the batches that yielded nothing and reported their progress
RECURSIVE process_batches(_, _)
process_batches(listing, contents) ==
    IF listing = <<>> THEN [raised |-> FALSE, handed |-> <<>>, batches |-> 0]
    ELSE LET batch == CountTake(listing, BatchSize)
         IN IF analyze_all(batch, contents) # <<>>
            THEN [raised |-> TRUE, handed |-> batch, batches |-> 0]
            ELSE LET rest == process_batches(CountDrop(listing, BatchSize), contents)
                 IN [raised |-> rest.raised, handed |-> batch \o rest.handed,
                     batches |-> rest.batches + 1]

\* process_files_streaming keeping every path, whatever its size
process_files_streaming_unfiltered(file_paths, contents) ==
    process_batches(file_paths, contents)

\* StreamingProcessor.process_files_streaming
process_files_streaming(file_paths, contents) ==
    process_batches(filtered_paths(file_paths, contents), contents)

\* _analyze_large_project: streaming extraction, and when it yields nothing
\* the simplified integration and the capped assembly
AnalyzeLargeProject ==
    /\ pc = "discovered"
    /\ TakesLargePath
    /\ \E listing \in WalkOrders(tree, generated) :
          LET streamed == process_files_streaming(listing, tree)
              data == integrate_large_project_data(<<>>)
              announced == progress \o
                  <<Update("Analyzing project complexity", 1),
                    Update("Large project detected, using optimized analysis", 1),
                    Update("Initializing large project analysis", 1)>>
          IN /\ extracted' = streamed.handed
             /\ IF streamed.raised
                THEN /\ progress' = announced
                     /\ pc' = "large_raised"
                     /\ UNCHANGED <<integrated_data, result>>
                ELSE /\ progress' = announced \o
                         (IF streamed.batches > 0
                          THEN <<Update("Large project: Processed files", streamed.batches)>>
                          ELSE <<>>) \o
                         <<Update("Completing large project analysis", 1),
                           Update("Assembling results with pagination", 1)>>
                     /\ integrated_data' = data
                     /\ result' = assemble_large_project_result(current_analysis_id,
                                       CountLen(project_files), 1, data)
                     /\ pc' = "large_done"
    /\ UNCHANGED <<cache_vars, detector_vars, manager_vars, matcher_vars, extractor_vars, parallel_vars>>
    /\ UNCHANGED <<tree, hash_order, exclude_patterns, generated, max_workers, enable_performance_optimization,
                   route, incremental_files,
                   current_analysis_id, project_files, pydeps_result, ast_analyses, cursor,
                   running>>

\* the updates of stage 1.2 when the project is not given to the
\* large-project path
SizeUpdates ==
    IF EstimatesSize
    THEN <<Update("Analyzing project complexity", 1),
           Update("Project size manageable, using standard analysis", 1)>>
    ELSE <<>>

\* stage 1.5 of analyze_project with an empty cache directory:
\* can_use_incremental returns None
CheckCacheValidity ==
    /\ pc = "discovered"
    /\ ~TakesLargePath
    /\ enable_caching
    /\ cache_store = NoCache
    /\ route = "full"
    /\ progress' = progress \o SizeUpdates \o <<Update("Checking cache validity", 1)>>
    /\ pc' = "cache_checked"
    /\ UNCHANGED <<cache_vars, detector_vars, manager_vars, matcher_vars, extractor_vars, parallel_vars>>
    /\ UNCHANGED <<tree, hash_order, exclude_patterns, generated, max_workers, enable_performance_optimization,
                   route, incremental_files,
                   current_analysis_id, project_files, pydeps_result, ast_analyses, cursor,
                   running, integrated_data, result, extracted>>

\* stage 2 of _perform_full_analysis, and the announcement of stage 3
RunPydepsAnalysis ==
    /\ \/ pc = "discovered" /\ ~TakesLargePath /\ ~enable_caching
       \/ pc = "cache_checked"
    /\ \E dep_graph \in PydepsOutcomes(tree) : pydeps_result' = run_pydeps_analysis(dep_graph)
    /\ progress' = progress \o (IF pc = "discovered" THEN SizeUpdates ELSE <<>>) \o
                   <<Update("Running module-level analysis", 1),
                     Update("Analyzing code structure", 1)>>
    /\ pc' = "ast"
    /\ UNCHANGED <<cache_vars, detector_vars, manager_vars, matcher_vars, extractor_vars, parallel_vars>>
    /\ UNCHANGED <<tree, hash_order, exclude_patterns, generated, max_workers, enable_performance_optimization,
                   route, incremental_files,
                   current_analysis_id, project_files, ast_analyses, cursor, running,
                   integrated_data, result, extracted>>

\* the test of _run_ast_analysis
UsesWorkerPool == CountLen(project_files) > ParallelThreshold /\ max_workers > 1

\* one iteration of the loop of _run_sequential_ast_analysis
SequentialAnalyzeFile ==
    /\ pc = "ast"
    /\ ~UsesWorkerPool
    /\ cursor < Len(project_files)
    /\ LET analysis == analyze_entry(project_files[cursor + 1], tree)
       IN ast_analyses' = IF analysis = NoAnalysis THEN ast_analyses
                          ELSE Append(ast_analyses, analysis)
    /\ extracted' = Append(extracted, project_files[cursor + 1])
    /\ progress' = Append(progress, Update("Analyzing file", project_files[cursor + 1].count))
    /\ cursor' = cursor + 1
    /\ UNCHANGED <<cache_vars, detector_vars, manager_vars, matcher_vars, extractor_vars, parallel_vars>>
    /\ UNCHANGED <<tree, hash_order, exclude_patterns, generated, max_workers, enable_performance_optimization,
                   route, incremental_files, pc,
                   current_analysis_id, project_files, pydeps_result, running,
                   integrated_data, result>>

\* _run_parallel_ast_analysis: a free worker of the pool takes the next
\* submitted task
WorkerTakesTask ==
    /\ pc = "ast"
    /\ UsesWorkerPool
    /\ cursor < Len(project_files)
    /\ Cardinality(running) < max_workers
    /\ running' = running \cup {cursor + 1}
    /\ extracted' = Append(extracted, project_files[cursor + 1])
    /\ cursor' = cursor + 1
    /\ UNCHANGED <<cache_vars, detector_vars, manager_vars, matcher_vars, extractor_vars, parallel_vars>>
    /\ UNCHANGED <<tree, hash_order, exclude_patterns, generated, max_workers, enable_performance_optimization,
                   route, incremental_files, pc,
                   current_analysis_id, project_files, pydeps_result, ast_analyses,
                   integrated_data, result, progress>>

\* _run_parallel_ast_analysis: as_completed yields a finished task and its
\* analysis is appended
TaskCompleted ==
    /\ pc = "ast"
    /\ UsesWorkerPool
    /\ \E k \in running :
          LET analysis == analyze_entry(project_files[k], tree)
          IN /\ ast_analyses' = IF analysis = NoAnalysis THEN ast_analyses
                                ELSE Append(ast_analyses, analysis)
             /\ running' = running \ {k}
    /\ progress' = Append(progress, Update("Analyzing file", 1))
    /\ UNCHANGED <<cache_vars, detector_vars, manager_vars, matcher_vars, extractor_vars, parallel_vars>>
    /\ UNCHANGED <<tree, hash_order, exclude_patterns, generated, max_workers, enable_performance_optimization,
                   route, incremental_files, pc,
                   current_analysis_id, project_files, pydeps_result, cursor,
                   integrated_data, result, extracted>>

\* _run_ast_analysis returning as soon as every file was handed out
ExtractionFinished_once_submitted == cursor = Len(project_files)

\* _run_ast_analysis has returned: every file was handed out and the pool
\* is closed
ExtractionFinished == cursor = Len(project_files) /\ running = {}

\* stage 4 of _perform_full_analysis
IntegrateAnalyses ==
    /\ pc = "ast"
    /\ ExtractionFinished
    /\ integrated_data' = integrate_analyses(pydeps_result, ast_analyses, hash_order)
    /\ progress' = Append(progress, Update("Integrating analysis results", 1))
    /\ pc' = "integrated"
    /\ UNCHANGED <<cache_vars, detector_vars, manager_vars, matcher_vars, extractor_vars, parallel_vars>>
    /\ UNCHANGED <<tree, hash_order, exclude_patterns, generated, max_workers, enable_performance_optimization,
                   route, incremental_files,
                   current_analysis_id, project_files, pydeps_result, ast_analyses,
                   cursor, running, result, extracted>>

\* analyze_project returns right after _perform_full_analysis: there is no
\* cache manager, or the incremental analysis raised and cache_id is set
ReturnsUnsaved == ~enable_caching \/ route = "raised"

\* stages 5 and 6 of _perform_full_analysis and, when nothing is to be
\* saved, the return of analyze_project
AssembleResult ==
    /\ pc = "integrated"
    /\ result' = assemble_result(current_analysis_id, CountLen(project_files), 1,
                                 integrated_data)
    /\ progress' = progress \o
                   <<Update("Skipping quality metrics (fast mode)", 1),
                     Update("Assembling final results", 1)>> \o
                   (IF ReturnsUnsaved THEN <<Update("Analysis complete", 1)>> ELSE <<>>)
    /\ pc' = IF ReturnsUnsaved THEN "done" ELSE "assembled"
    /\ UNCHANGED <<cache_vars, detector_vars, manager_vars, matcher_vars, extractor_vars, parallel_vars>>
    /\ UNCHANGED <<tree, hash_order, exclude_patterns, generated, max_workers, enable_performance_optimization,
                   route, incremental_files,
                   current_analysis_id, project_files, pydeps_result, ast_analyses,
                   cursor, running, integrated_data, extracted>>

EngineNext ==
    \/ DiscoverProjectFiles
    \/ AnalyzeLargeProject
    \/ RunPydepsAnalysis
    \/ SequentialAnalyzeFile
    \/ WorkerTakesTask
    \/ TaskCompleted
    \/ IntegrateAnalyses
    \/ AssembleResult

SpecEngine == EngineInit /\ [][EngineNext]_vars

(***************************************************************************)
(* One run on a tree with imports                                          *)
(***************************************************************************)
\* no cache is in use
CacheIdle ==
    /\ fs = <<>>
    /\ enable_caching = FALSE
    /\ cache_store = NoCache
    /\ clock = 0
    /\ edits = 0
    /\ last_run = NoRun
    /\ prev_run = NoRun

\* A package of modules that import each other, alone or beside the
\* generated modules that make the project a large one; the process has any
\* hash order of the module names.
CyclesInit ==
    /\ CacheIdle
    /\ DetectorIdle
    /\ ManagerIdle
    /\ MatcherIdle
    /\ ExtractorIdle
    /\ ParallelIdle
    /\ tree \in CycleTrees
    /\ hash_order \in Perms(CycleModules)
    /\ exclude_patterns = DefaultExcludePatterns
    /\ generated \in {0, GeneratedModules}
    /\ max_workers = 1
    /\ enable_performance_optimization = TRUE
    /\ pc = "idle"
    /\ current_analysis_id = None
    /\ project_files = <<>>
    /\ pydeps_result = run_pydeps_analysis(EmptyDepGraph)
    /\ ast_analyses = <<>>
    /\ cursor = 0
    /\ running = {}
    /\ integrated_data = <<>>
    /\ result = NoResult
    /\ progress = <<>>
    /\ extracted = <<>>
    /\ route = "full"
    /\ incremental_files = <<>>

CyclesNext ==
    \/ DiscoverProjectFiles
    \/ AnalyzeLargeProject
    \/ RunPydepsAnalysis
    \/ SequentialAnalyzeFile
    \/ IntegrateAnalyses
    \/ AssembleResult

SpecCycles == CyclesInit /\ [][CyclesNext]_vars

(***************************************************************************)
(* One run with exclude patterns                                           *)
(***************************************************************************)
\* the trees: a class file or no file at each of the three paths
ExclusionTrees == [SmallFiles -> {NoFile, 2}]

ExclusionInit ==
    /\ CacheIdle
    /\ DetectorIdle
    /\ ManagerIdle
    /\ MatcherIdle
    /\ ExtractorIdle
    /\ ParallelIdle
    /\ tree \in ExclusionTrees
    /\ hash_order = <<>>
    /\ exclude_patterns \in ExcludePatternSets
    /\ generated \in {0, GeneratedModules}
    /\ max_workers = 1
    /\ enable_performance_optimization = TRUE
    /\ pc = "idle"
    /\ current_analysis_id = None
    /\ project_files = <<>>
    /\ pydeps_result = run_pydeps_analysis(EmptyDepGraph)
    /\ ast_analyses = <<>>
    /\ cursor = 0
    /\ running = {}
    /\ integrated_data = <<>>
    /\ result = NoResult
    /\ progress = <<>>
    /\ extracted = <<>>
    /\ route = "full"
    /\ incremental_files = <<>>

ExclusionNext ==
    \/ DiscoverProjectFiles
    \/ AnalyzeLargeProject
    \/ RunPydepsAnalysis
    \/ SequentialAnalyzeFile
    \/ IntegrateAnalyses
    \/ AssembleResult

SpecExclusion == ExclusionInit /\ [][ExclusionNext]_vars

(***************************************************************************)
(* Properties of one run                                                   *)
(***************************************************************************)
Returned == pc \in {"done", "large_done"}

\* the ids of a list of entity records
IdsOf(entities) == [k \in 1..Len(entities) |-> entities[k].id]

\* the ids of every entity record of a result, list after list
EntityIds(r) ==
    IdsOf(r.dependency_graph.packages) \o IdsOf(r.dependency_graph.modules)
    \o IdsOf(r.dependency_graph.classes) \o IdsOf(r.dependency_graph.methods)
    \o IdsOf(r.dependency_graph.fields)

PairwiseDistinct(ids) == \A i, j \in 1..Len(ids) : ids[i] = ids[j] => i = j

\* C1: in the result of a run no two entity records (packages, modules,
\* classes, methods, functions, fields) carry the same id.
C1_EntityIdsDistinct == Returned => PairwiseDistinct(EntityIds(result))

\* every parent id an entity of the result names is the id of a listed parent
ParentsListed(r) ==
    LET g == r.dependency_graph
    IN /\ \A k \in 1..Len(g.classes) : g.classes[k].module_id \in Range(IdsOf(g.modules))
       /\ \A k \in 1..Len(g.methods) :
             g.methods[k].class_id # None => g.methods[k].class_id \in Range(IdsOf(g.classes))
       /\ \A k \in 1..Len(g.fields) : g.fields[k].class_id \in Range(IdsOf(g.classes))

StandardPathParentsListed == pc = "done" => ParentsListed(result)

SortedByPath(analyses) ==
    \A i, j \in 1..Len(analyses) :
        i < j => path_rank(analyses[i].file_path) < path_rank(analyses[j].file_path)

\* C3: when extraction ran in the worker pool, the analyses handed to
\* integration are ordered by file path, whatever order the tasks completed in.
C3_SortedBeforeIntegration ==
    (pc \in {"integrated", "done"} /\ UsesWorkerPool) => SortedByPath(ast_analyses)

(***************************************************************************)
(* cache_manager.py: file fingerprints and the incremental plan            *)
(***************************************************************************)
\* the files that are edited between runs
CacheFiles == SmallFiles

\* the contents written to them: ProgClassMethod and ProgFields
CacheContents == {2, 4}

\* the modification times a write may leave
MaxMtime == 1

\* os.stat(path).st_size of a file holding content c: the length of its text
\* (the two texts of CacheContents are of equal length, so that only the
\* checksum tells them apart when the modification time is equal)
st_size(c) == file_size(c)

\* hashlib.md5(content).hexdigest(): one digest per content
md5_hexdigest(c) == "md5:" \o ToString(c)

exists(files, p) == p \in DOMAIN files /\ files[p].content # NoFile

\* the content of every path of a file system
ContentsOf(files) == [p \in DOMAIN files |-> files[p].content]

\* FileMetadata.from_file
from_file(p, files) ==
    [file_path |-> p,
     last_modified |-> files[p].mtime,
     size |-> st_size(files[p].content),
     checksum |-> md5_hexdigest(files[p].content)]

\* FileMetadata.from_file raises: the file cannot be opened
from_file_raises(p, files) == files[p].content = Denied

\* FileMetadata.is_outdated
is_outdated(metadata, files) ==
    IF ~exists(files, metadata.file_path) THEN TRUE
    ELSE IF files[metadata.file_path].mtime # metadata.last_modified
            \/ st_size(files[metadata.file_path].content) # metadata.size
    THEN TRUE
    ELSE IF files[metadata.file_path].content = Denied THEN TRUE
    ELSE md5_hexdigest(files[metadata.file_path].content) # metadata.checksum

\* a set of paths as a list in ascending path order
SortedSeq(S) ==
    [k \in 1..Cardinality(S) |->
        CHOOSE p \in S : Cardinality({q \in S : path_rank(q) < path_rank(p)}) = k - 1]

\* CacheManager.generate_cache_key: a digest of the project path and the options
generate_cache_key(project_path, options) ==
    "sha256:" \o JoinWith(project_path, "/") \o ":" \o ToString(options)

\* CacheManager.check_incremental_validity: the validity dict, as its keys in
\* insertion order (cached files first, in the order they were saved, which is
\* ascending here; then the files new to the cache) and its values
validity_keys(cache, current_files) ==
    SortedSeq(DOMAIN cache.file_metadata)
    \o SelectSeq(current_files, LAMBDA p : p \notin DOMAIN cache.file_metadata)

check_incremental_validity(cache, current_files, files) ==
    [p \in Range(validity_keys(cache, current_files)) |->
        IF p \in DOMAIN cache.file_metadata
        THEN IF p \notin Range(current_files) THEN FALSE
             ELSE ~is_outdated(cache.file_metadata[p], files)
        ELSE FALSE]

\* CacheManager.get_incremental_analysis_plan.  cache.dependencies is never
\* filled, so dependent_files is empty; list(set(...)) is taken ascending.
get_incremental_analysis_plan(cache, current_files, files) ==
    LET validity == check_incremental_validity(cache, current_files, files)
        keys == validity_keys(cache, current_files)
        outdated_files == SelectSeq(keys, LAMBDA p : ~validity[p])
        valid_files == SelectSeq(keys, LAMBDA p : validity[p])
        dependent_files == {}
        truly_valid == SelectSeq(valid_files, LAMBDA p : p \notin dependent_files)
        needs_reanalysis == SortedSeq(Range(outdated_files) \cup dependent_files)
    IN [reuse |-> truly_valid,
        reanalyze |-> needs_reanalysis,
        new |-> SelectSeq(current_files, LAMBDA p : p \notin DOMAIN cache.file_metadata)]

\* IncrementalAnalyzer._merge_analysis_results
merge_analysis_results(cached_result, partial_result) == cached_result

\* the threshold 0.7 of perform_incremental_analysis as a fraction: for list
\* lengths a and b, a / b > 0.7 in floating point exactly when 10 a > 7 b
ThresholdNum == 7

ThresholdDen == 10

TooManyChanges(reanalyze_files, current_files) ==
    ThresholdDen * Len(reanalyze_files) > ThresholdNum * Len(current_files)

\* the dict {file_path: FileMetadata.from_file(file_path)} over the files that exist
fingerprints(current_files, files) ==
    [p \in {q \in Range(current_files) : exists(files, q)} |-> from_file(p, files)]

\* AnalysisCache(...)
AnalysisCache(cache_id, now, file_metadata, analysis_result) ==
    [cache_id |-> cache_id, created_at |-> now,
     file_metadata |-> file_metadata, analysis_result |-> analysis_result]

(***************************************************************************)
(* analyzer_engine.py: whole runs of analyze_project with the cache        *)
(***************************************************************************)
\* _discover_project_files on the edited tree, the listing taken ascending
discover_project_files(files) ==
    SortedSeq({p \in DOMAIN files : exists(files, p)})

\* _perform_full_analysis(project_path, file_list): pydeps reports no module
\* (what _run_pydeps_analysis returns when pydeps raises), extraction is
\* sequential
perform_full_analysis(file_list, files, analysis_id, total_files, now) ==
    LET listing == [k \in 1..Len(file_list) |-> Entry(file_list[k], 1)]
    IN With(analyze_all(listing, ContentsOf(files)), LAMBDA ast :
       With(integrate_analyses(run_pydeps_analysis(EmptyDepGraph), ast, <<>>), LAMBDA data :
       assemble_result(analysis_id, total_files, now, data)))

\* IncrementalAnalyzer.perform_incremental_analysis with the cache entry at
\* hand: the route taken, the result returned (or that it raised), the files
\* handed to extraction, and the cache entry left behind
perform_incremental_analysis(cache, current_files, files, analysis_id, now) ==
    With(get_incremental_analysis_plan(cache, current_files, files), LAMBDA plan :
    LET reuse_files == plan.reuse
        reanalyze_files == plan.reanalyze \o plan.new
        total_files == Len(current_files)
        full == perform_full_analysis(current_files, files, analysis_id, total_files, now)
        partial_result == perform_full_analysis(reanalyze_files, files, analysis_id,
                                                total_files, now)
        merged_result == IF reanalyze_files # <<>>
                         THEN merge_analysis_results(cache.analysis_result, partial_result)
                         ELSE cache.analysis_result
        updated_cache == With(merged_result, LAMBDA merged :
                              AnalysisCache(cache.cache_id, now,
                                            fingerprints(current_files, files), merged))
    IN IF Len(current_files) = 0
       THEN [route |-> "raised", plan |-> plan, result |-> NoResult,
             extracted |-> <<>>, cache |-> cache, saved |-> FALSE]
       ELSE IF TooManyChanges(reanalyze_files, current_files)
       THEN [route |-> "fallback", plan |-> plan, result |-> full,
             extracted |-> current_files, cache |-> cache, saved |-> FALSE]
       ELSE IF reanalyze_files # <<>>
       THEN [route |-> "partial", plan |-> plan, result |-> merged_result,
             extracted |-> reanalyze_files, cache |-> updated_cache, saved |-> TRUE]
       ELSE [route |-> "reuse", plan |-> plan, result |-> merged_result,
             extracted |-> <<>>, cache |-> updated_cache, saved |-> TRUE])

\* analyze_project from stage 1.5 on, for a project below the large-project
\* threshold: what the run did, returned and left in the cache
analyze_project(files, caching, cache, run) ==
    With(discover_project_files(files), LAMBDA current_files :
    LET analysis_id == uuid4(run)
        total_files == Len(current_files)
        full == perform_full_analysis(current_files, files, analysis_id, total_files, run)
        cache_id == generate_cache_key(ProjectRoot, caching)
        noplan == [reuse |-> <<>>, reanalyze |-> <<>>, new |-> <<>>]
    IN IF ~caching
       THEN [route |-> "uncached", plan |-> noplan, result |-> full,
             extracted |-> current_files, cache |-> cache, saved |-> FALSE]
       ELSE IF cache = NoCache
       THEN With(full, LAMBDA analysis_result :
            [route |-> "cold", plan |-> noplan, result |-> analysis_result,
             extracted |-> current_files,
             cache |-> AnalysisCache(cache_id, run,
                                     fingerprints(current_files, files), analysis_result),
             saved |-> TRUE])
       ELSE With(perform_incremental_analysis(cache, current_files, files,
                                              analysis_id, run), LAMBDA incremental :
            IF incremental.route = "raised"
            THEN [incremental EXCEPT !.result = full, !.extracted = current_files]
            ELSE incremental))

MaxRuns == 3

MaxEdits == 3

Absent == [content |-> NoFile, mtime |-> 0]

EngineIdle ==
    /\ tree = <<>>
    /\ hash_order = <<>>
    /\ exclude_patterns = DefaultExcludePatterns
    /\ generated = 0
    /\ max_workers = 1
    /\ enable_performance_optimization = TRUE
    /\ pc = "idle"
    /\ current_analysis_id = None
    /\ project_files = <<>>
    /\ pydeps_result = run_pydeps_analysis(EmptyDepGraph)
    /\ ast_analyses = <<>>
    /\ cursor = 0
    /\ running = {}
    /\ integrated_data = <<>>
    /\ result = NoResult
    /\ progress = <<>>
    /\ extracted = <<>>
    /\ route = "full"
    /\ incremental_files = <<>>

\* the project starts as /proj/a.py (ProgClassMethod) and /proj/b.py
\* (ProgFields); the cache directory is empty
CacheInit ==
    /\ EngineIdle
    /\ DetectorIdle
    /\ ManagerIdle
    /\ MatcherIdle
    /\ ExtractorIdle
    /\ ParallelIdle
    /\ fs = [p \in CacheFiles |->
               IF p = FileA THEN [content |-> 2, mtime |-> 0]
               ELSE IF p = FileB THEN [content |-> 4, mtime |-> 0]
               ELSE Absent]
    /\ enable_caching \in BOOLEAN
    /\ cache_store = NoCache
    /\ clock = 0
    /\ edits = 0
    /\ last_run = NoRun
    /\ prev_run = NoRun

\* a file is created or overwritten
WriteFile ==
    /\ edits < MaxEdits
    /\ \E p \in CacheFiles, c \in CacheContents, m \in 0..MaxMtime :
          /\ fs[p] # [content |-> c, mtime |-> m]
          /\ fs' = [fs EXCEPT ![p] = [content |-> c, mtime |-> m]]
    /\ edits' = edits + 1
    /\ UNCHANGED <<engine_vars, detector_vars, manager_vars, matcher_vars, extractor_vars, parallel_vars>>
    /\ UNCHANGED <<enable_caching, cache_store, clock, last_run, prev_run>>

\* a file is removed
DeleteFile ==
    /\ edits < MaxEdits
    /\ \E p \in CacheFiles :
          /\ exists(fs, p)
          /\ fs' = [fs EXCEPT ![p] = Absent]
    /\ edits' = edits + 1
    /\ UNCHANGED <<engine_vars, detector_vars, manager_vars, matcher_vars, extractor_vars, parallel_vars>>
    /\ UNCHANGED <<enable_caching, cache_store, clock, last_run, prev_run>>

\* one whole call of analyze_project on the tree as it stands
AnalyzeProject ==
    /\ clock < MaxRuns
    /\ \E run \in {analyze_project(fs, enable_caching, cache_store, clock + 1)} :
          /\ last_run' = [route |-> run.route, plan |-> run.plan, result |-> run.result,
                          extracted |-> run.extracted, saved |-> run.saved,
                          files |-> fs, cached |-> cache_store]
          /\ cache_store' = run.cache
    /\ prev_run' = last_run
    /\ clock' = clock + 1
    /\ UNCHANGED <<engine_vars, detector_vars, manager_vars, matcher_vars, extractor_vars, parallel_vars>>
    /\ UNCHANGED <<fs, enable_caching, edits>>

CacheNext ==
    \/ WriteFile
    \/ DeleteFile
    \/ AnalyzeProject

SpecCache == CacheInit /\ [][CacheNext]_vars

\* the project starts as /proj/pkg/a.py (import b) and /proj/pkg/b.py
\* (empty); the cache directory is empty and the cache is enabled
ImportCacheInit ==
    /\ EngineIdle
    /\ DetectorIdle
    /\ ManagerIdle
    /\ MatcherIdle
    /\ ExtractorIdle
    /\ ParallelIdle
    /\ fs = [p \in {FilePkgA, FilePkgB} |->
               IF p = FilePkgA THEN [content |-> Importing(2), mtime |-> 0]
               ELSE [content |-> 1, mtime |-> 0]]
    /\ enable_caching = TRUE
    /\ cache_store = NoCache
    /\ clock = 0
    /\ edits = 0
    /\ last_run = NoRun
    /\ prev_run = NoRun

\* one of the two files is overwritten with an import of a or of b, or with
\* nothing
WriteImport ==
    /\ edits < MaxEdits
    /\ \E p \in DOMAIN fs, c \in {1, Importing(1), Importing(2)}, m \in 0..MaxMtime :
          /\ fs[p] # [content |-> c, mtime |-> m]
          /\ fs' = [fs EXCEPT ![p] = [content |-> c, mtime |-> m]]
    /\ edits' = edits + 1
    /\ UNCHANGED <<engine_vars, detector_vars, manager_vars, matcher_vars, extractor_vars, parallel_vars>>
    /\ UNCHANGED <<enable_caching, cache_store, clock, last_run, prev_run>>

ImportCacheNext ==
    \/ WriteImport
    \/ AnalyzeProject

SpecImportCache == ImportCacheInit /\ [][ImportCacheNext]_vars

(***************************************************************************)
(* analyzer_engine.py: runs of analyze_project with the cache, step by step *)
(***************************************************************************)
\* the file system as FileMetadata reads it: every file of the tree carries
\* the modification time 0
stat_tree(contents) == [p \in DOMAIN contents |-> [content |-> contents[p], mtime |-> 0]]

\* a list of paths as entries of one file each, and back
EntriesOf(paths) == [k \in 1..Len(paths) |-> Entry(paths[k], 1)]

PathsOf(entries) == [k \in 1..Len(entries) |-> entries[k].path]

\* some file of the list exists and cannot be fingerprinted
FingerprintRaises(paths, files) ==
    \E k \in 1..Len(paths) : exists(files, paths[k]) /\ from_file_raises(paths[k], files)

\* stage 7 of analyze_project after a full analysis with an empty cache:
\* _save_analysis_cache, which swallows what from_file raises
SaveAnalysisCache ==
    /\ pc = "assembled"
    /\ route = "full"
    /\ LET files == stat_tree(tree)
           paths == PathsOf(project_files)
       IN cache_store' =
             IF FingerprintRaises(paths, files) THEN cache_store
             ELSE AnalysisCache(generate_cache_key(ProjectRoot, enable_caching), clock + 1,
                                fingerprints(paths, files), result)
    /\ progress' = progress \o <<Update("Saving analysis cache", 1),
                                  Update("Analysis complete", 1)>>
    /\ pc' = "done"
    /\ UNCHANGED <<fs, enable_caching, clock, edits, last_run, prev_run>>
    /\ UNCHANGED <<detector_vars, manager_vars, matcher_vars, extractor_vars, parallel_vars>>
    /\ UNCHANGED <<tree, hash_order, exclude_patterns, generated, max_workers, enable_performance_optimization,
                   route, incremental_files,
                   current_analysis_id, project_files, pydeps_result, ast_analyses,
                   cursor, running, integrated_data, result, extracted>>

\* stage 1.5 of analyze_project with an entry in the cache directory, and
\* perform_incremental_analysis up to its call of the full analyzer: the
\* plan, the 0.7 test, and the whole branch when no file is to be re-analysed
PerformIncrementalAnalysis ==
    /\ pc = "discovered"
    /\ ~TakesLargePath
    /\ enable_caching
    /\ cache_store # NoCache
    /\ LET files == stat_tree(tree)
           paths == PathsOf(project_files)
           plan == get_incremental_analysis_plan(cache_store, paths, files)
           reanalyze_files == plan.reanalyze \o plan.new
           announced == progress \o SizeUpdates \o
                        <<Update("Checking cache validity", 1),
                          Update("Performing incremental analysis", 1)>>
       IN /\ incremental_files' = paths
          /\ IF Len(paths) = 0
             THEN /\ route' = "raised"
                  /\ progress' = announced
                  /\ pc' = "cache_checked"
                  /\ UNCHANGED <<project_files, result, cache_store>>
             ELSE IF TooManyChanges(reanalyze_files, paths)
             THEN /\ route' = "fallback"
                  /\ progress' = announced
                  /\ pc' = "cache_checked"
                  /\ UNCHANGED <<project_files, result, cache_store>>
             ELSE IF reanalyze_files # <<>>
             THEN /\ route' = "partial"
                  /\ project_files' = EntriesOf(reanalyze_files)
                  /\ progress' = announced
                  /\ pc' = "cache_checked"
                  /\ UNCHANGED <<result, cache_store>>
             ELSE /\ route' = "reuse"
                  /\ result' = cache_store.analysis_result
                  /\ cache_store' = AnalysisCache(cache_store.cache_id, clock + 1,
                                                  fingerprints(paths, files),
                                                  cache_store.analysis_result)
                  /\ progress' = Append(announced, Update("Incremental analysis complete", 1))
                  /\ pc' = "done"
                  /\ UNCHANGED project_files
    /\ UNCHANGED <<fs, enable_caching, clock, edits, last_run, prev_run>>
    /\ UNCHANGED <<detector_vars, manager_vars, matcher_vars, extractor_vars, parallel_vars>>
    /\ UNCHANGED <<tree, hash_order, exclude_patterns, generated, max_workers,
                   enable_performance_optimization, current_analysis_id, pydeps_result,
                   ast_analyses, cursor, running, integrated_data, extracted>>

\* perform_incremental_analysis after the full analyzer returned to its
\* "too many changes" branch: the result is returned, the cache is left alone
FallbackReturns ==
    /\ pc = "assembled"
    /\ route = "fallback"
    /\ progress' = Append(progress, Update("Incremental analysis complete", 1))
    /\ pc' = "done"
    /\ UNCHANGED <<cache_vars, detector_vars, manager_vars, matcher_vars, extractor_vars, parallel_vars>>
    /\ UNCHANGED <<tree, hash_order, exclude_patterns, generated, max_workers, enable_performance_optimization,
                   route, incremental_files,
                   current_analysis_id, project_files, pydeps_result, ast_analyses,
                   cursor, running, integrated_data, result, extracted>>

\* perform_incremental_analysis after the partial analysis: the merge, the
\* new fingerprints and save_cache; when a fingerprint raises, the except
\* clause of analyze_project starts the full analysis of the whole list
SaveIncrementalCache ==
    /\ pc = "assembled"
    /\ route = "partial"
    /\ LET files == stat_tree(tree)
       IN IF FingerprintRaises(incremental_files, files)
          THEN /\ route' = "raised"
               /\ project_files' = EntriesOf(incremental_files)
               /\ ast_analyses' = <<>>
               /\ cursor' = 0
               /\ integrated_data' = <<>>
               /\ result' = NoResult
               /\ pc' = "cache_checked"
               /\ UNCHANGED <<cache_store, progress>>
          ELSE /\ result' = merge_analysis_results(cache_store.analysis_result, result)
               /\ cache_store' = AnalysisCache(cache_store.cache_id, clock + 1,
                                               fingerprints(incremental_files, files),
                                               merge_analysis_results(
                                                   cache_store.analysis_result, result))
               /\ progress' = Append(progress, Update("Incremental analysis complete", 1))
               /\ pc' = "done"
               /\ UNCHANGED <<route, project_files, ast_analyses, cursor, integrated_data>>
    /\ UNCHANGED <<fs, enable_caching, clock, edits, last_run, prev_run>>
    /\ UNCHANGED <<detector_vars, manager_vars, matcher_vars, extractor_vars, parallel_vars>>
    /\ UNCHANGED <<tree, hash_order, exclude_patterns, generated, max_workers,
                   enable_performance_optimization, incremental_files,
                   current_analysis_id, pydeps_result, running, extracted>>

\* files rewritten between two runs
MaxRewrites == 2

\* the files that are rewritten between runs
Rewritable == {FileA, FileB}

\* between two calls of analyze_project a file is overwritten with a function
\* in place of its program, or loses its read permission
RewriteFile ==
    /\ pc = "done"
    /\ edits < MaxRewrites
    /\ \E p \in Rewritable \cap DOMAIN tree, c \in {3, Denied} :
          /\ tree[p] # c
          /\ tree' = [tree EXCEPT ![p] = c]
    /\ edits' = edits + 1
    /\ UNCHANGED <<fs, enable_caching, cache_store, clock, last_run, prev_run>>
    /\ UNCHANGED <<detector_vars, manager_vars, matcher_vars, extractor_vars, parallel_vars>>
    /\ UNCHANGED <<hash_order, exclude_patterns, generated, max_workers,
                   enable_performance_optimization, route, incremental_files, pc,
                   current_analysis_id, project_files, pydeps_result, ast_analyses,
                   cursor, running, integrated_data, result, progress, extracted>>

\* the next call of analyze_project on the same engine and cache directory
StartNextRun ==
    /\ pc = "done"
    /\ clock + 1 < MaxRuns
    /\ clock' = clock + 1
    /\ pc' = "idle"
    /\ current_analysis_id' = None
    /\ project_files' = <<>>
    /\ ast_analyses' = <<>>
    /\ cursor' = 0
    /\ integrated_data' = <<>>
    /\ result' = NoResult
    /\ progress' = <<>>
    /\ extracted' = <<>>
    /\ route' = "full"
    /\ incremental_files' = <<>>
    /\ UNCHANGED <<fs, enable_caching, cache_store, edits, last_run, prev_run>>
    /\ UNCHANGED <<detector_vars, manager_vars, matcher_vars, extractor_vars, parallel_vars>>
    /\ UNCHANGED <<tree, hash_order, exclude_patterns, generated, max_workers,
                   enable_performance_optimization, pydeps_result, running>>

\* An engine with the cache enabled and an empty cache directory, on a
\* project of two files
CachedRunsInit ==
    /\ DetectorIdle
    /\ ManagerIdle
    /\ MatcherIdle
    /\ ExtractorIdle
    /\ ParallelIdle
    /\ fs = <<>>
    /\ enable_caching = TRUE
    /\ cache_store = NoCache
    /\ clock = 0
    /\ edits = 0
    /\ last_run = NoRun
    /\ prev_run = NoRun
    /\ hash_order = <<>>
    /\ exclude_patterns = DefaultExcludePatterns
    /\ generated = 0
    /\ tree = [p \in {FileA, FileB} |-> IF p = FileA THEN 2 ELSE 4]
    /\ max_workers = 1
    /\ enable_performance_optimization = TRUE
    /\ pc = "idle"
    /\ current_analysis_id = None
    /\ project_files = <<>>
    /\ pydeps_result = run_pydeps_analysis(EmptyDepGraph)
    /\ ast_analyses = <<>>
    /\ cursor = 0
    /\ running = {}
    /\ integrated_data = <<>>
    /\ result = NoResult
    /\ progress = <<>>
    /\ extracted = <<>>
    /\ route = "full"
    /\ incremental_files = <<>>

CachedRunsNext ==
    \/ DiscoverProjectFiles
    \/ CheckCacheValidity
    \/ PerformIncrementalAnalysis
    \/ RunPydepsAnalysis
    \/ SequentialAnalyzeFile
    \/ IntegrateAnalyses
    \/ AssembleResult
    \/ SaveAnalysisCache
    \/ FallbackReturns
    \/ SaveIncrementalCache
    \/ RewriteFile
    \/ StartNextRun

SpecCachedRuns == CachedRunsInit /\ [][CachedRunsNext]_vars

\* An engine with the cache enabled and an empty cache directory, on the
\* wide project, with one worker or a pool of them
PoolCacheInit ==
    /\ DetectorIdle
    /\ ManagerIdle
    /\ MatcherIdle
    /\ ExtractorIdle
    /\ ParallelIdle
    /\ fs = <<>>
    /\ enable_caching = TRUE
    /\ cache_store = NoCache
    /\ clock = 0
    /\ edits = 0
    /\ last_run = NoRun
    /\ prev_run = NoRun
    /\ hash_order = <<>>
    /\ exclude_patterns = DefaultExcludePatterns
    /\ generated = 0
    /\ tree = WideTree
    /\ max_workers \in 1..MaxWorkers
    /\ enable_performance_optimization = TRUE
    /\ pc = "idle"
    /\ current_analysis_id = None
    /\ project_files = <<>>
    /\ pydeps_result = run_pydeps_analysis(EmptyDepGraph)
    /\ ast_analyses = <<>>
    /\ cursor = 0
    /\ running = {}
    /\ integrated_data = <<>>
    /\ result = NoResult
    /\ progress = <<>>
    /\ extracted = <<>>
    /\ route = "full"
    /\ incremental_files = <<>>

PoolCacheNext ==
    \/ DiscoverProjectFiles
    \/ CheckCacheValidity
    \/ RunPydepsAnalysis
    \/ SequentialAnalyzeFile
    \/ WorkerTakesTask
    \/ TaskCompleted
    \/ IntegrateAnalyses
    \/ AssembleResult
    \/ SaveAnalysisCache

SpecPoolCache == PoolCacheInit /\ [][PoolCacheNext]_vars

(***************************************************************************)
(* Properties of successive runs                                           *)
(***************************************************************************)
\* a list as a multiset: what is left of it once its order is set aside
BagOf(s) == [x \in Range(s) |-> Cardinality({i \in 1..Len(s) : s[i] = x})]

\* the entities and relationships of a result, every list as a multiset
AnalysisOf(r) ==
    [packages |-> BagOf(r.dependency_graph.packages),
     modules |-> BagOf(r.dependency_graph.modules),
     classes |-> BagOf(r.dependency_graph.classes),
     methods |-> BagOf(r.dependency_graph.methods),
     fields |-> BagOf(r.dependency_graph.fields),
     relationships |-> BagOf(r.relationships)]

\* a whole result under canonical ordering
Canonical(r) ==
    [analysis_id |-> r.analysis_id, project_info |-> r.project_info,
     analysis |-> AnalysisOf(r)]

\* what a run without any cache returns on a file system, its own id and
\* time stamp set aside
ColdAnalysis(files) ==
    AnalysisOf(perform_full_analysis(discover_project_files(files), files,
                                     uuid4(0), Len(discover_project_files(files)), 0))

HasRun(run) == run.route # "none"

\* the run consulted a cache entry
WarmRun(run) == run.route \in {"raised", "fallback", "partial", "reuse"}

\* C4: two successive calls on the same tree (every file's content equal)
\* with the same options return results that are equal in every field once
\* their lists are canonically ordered.
C4_SameTreeSameResult ==
    (HasRun(prev_run) /\ HasRun(last_run)
     /\ ContentsOf(prev_run.files) = ContentsOf(last_run.files))
    => Canonical(prev_run.result) = Canonical(last_run.result)

\* the cached files are the current files, and every one of them is equal to
\* its cached fingerprint
FullCacheHit(cache, files) ==
    /\ \A p \in DOMAIN files :
          exists(files, p) =>
              /\ p \in DOMAIN cache.file_metadata
              /\ ~is_outdated(cache.file_metadata[p], files)
    /\ \A p \in DOMAIN cache.file_metadata : exists(files, p)

\* C5: after any runs and edits, a run that finds every current file
\* fingerprint-equal to the cache (a full cache hit) returns the entities and
\* relationships a cold run on the current files returns.
C5_FullHitEqualsCold ==
    (WarmRun(last_run) /\ FullCacheHit(last_run.cached, last_run.files))
    => AnalysisOf(last_run.result) = ColdAnalysis(last_run.files)

\* the records of a result that come from file p
OwnedBy(r, p) ==
    LET Of(records) == BagOf(SelectSeq(records, LAMBDA x : x.file_path = PathStr(p)))
    IN [modules |-> Of(r.dependency_graph.modules),
        classes |-> Of(r.dependency_graph.classes),
        methods |-> Of(r.dependency_graph.methods),
        fields |-> Of(r.dependency_graph.fields),
        relationships |-> Of(r.relationships)]

\* the records extraction yields for file p of a file system
ExtractedFrom(files, p) ==
    LET analysis == analyze_file(p, files[p].content)
    IN [modules |-> BagOf(<<analysis.module_info>>),
        classes |-> BagOf(analysis.classes),
        methods |-> BagOf(analysis.methods),
        fields |-> BagOf(analysis.fields),
        relationships |-> BagOf(analysis.relationships)]

\* p is the one file whose content differs between two file systems
OnlyModified(before, after, p) ==
    /\ exists(before, p) /\ exists(after, p)
    /\ before[p].content # after[p].content
    /\ \A q \in DOMAIN before : q # p => before[q] = after[q]

\* C6: after a cold run, when exactly one file was modified, the next run
\* with the cache re-extracts that file only, and its result holds what the
\* file's new content yields and, for every other file, what the cold run's
\* result held.
C6_OnlyModifiedFileRefreshed ==
    \A p \in CacheFiles :
        (prev_run.route = "cold" /\ WarmRun(last_run)
         /\ OnlyModified(prev_run.files, last_run.files, p))
        => /\ last_run.extracted = <<p>>
           /\ OwnedBy(last_run.result, p) = ExtractedFrom(last_run.files, p)
           /\ \A q \in CacheFiles \ {p} :
                 OwnedBy(last_run.result, q) = OwnedBy(prev_run.result, q)

\* the part of C6 that holds: the modified file alone is handed to extraction
OnlyModifiedFileExtracted ==
    \A p \in CacheFiles :
        (prev_run.route = "cold" /\ WarmRun(last_run)
         /\ OnlyModified(prev_run.files, last_run.files, p))
        => last_run.extracted = <<p>>

\* the file system a cache entry's fingerprints were taken from
FingerprintedFiles(cache) ==
    [p \in CacheFiles |->
        IF p \in DOMAIN cache.file_metadata
        THEN [content |-> CHOOSE c \in Contents :
                             md5_hexdigest(c) = cache.file_metadata[p].checksum,
              mtime |-> cache.file_metadata[p].last_modified]
        ELSE Absent]

\* the stored result is the analysis of the files the stored fingerprints describe
EntryConsistent(cache) ==
    AnalysisOf(cache.analysis_result) = ColdAnalysis(FingerprintedFiles(cache))

\* C7: a run that falls back because too many files changed returns what a
\* cold run returns, and the cache entry it leaves is loadable and consistent:
\* its fingerprints and its result are of the same analysed state.
C7_FallbackLeavesCacheSound ==
    last_run.route = "fallback"
    => /\ AnalysisOf(last_run.result) = ColdAnalysis(last_run.files)
       /\ cache_store # NoCache
       /\ EntryConsistent(cache_store)

\* the part of C7 that holds: the fallback result is the cold result and the
\* entry is left as it was found
FallbackIsColdAndReadOnly ==
    last_run.route = "fallback"
    => /\ AnalysisOf(last_run.result) = ColdAnalysis(last_run.files)
       /\ cache_store = last_run.cached

\* C8: a run with caching enabled leaves a cache entry that holds this run's
\* fingerprints and this run's result, on every route, fallbacks included.
C8_EveryRunWritesEntry ==
    (HasRun(last_run) /\ enable_caching)
    => /\ cache_store # NoCache
       /\ cache_store.analysis_result = last_run.result
       /\ cache_store.file_metadata
            = fingerprints(discover_project_files(last_run.files), last_run.files)

\* C9: the plan's reuse list holds the files cached and current with an
\* unchanged fingerprint, reanalyze those cached and current with a changed
\* one, new those current only; files cached only are in no list; the three
\* lists are pairwise disjoint.
C9_PlanClassifies ==
    WarmRun(last_run) =>
        LET cached == DOMAIN last_run.cached.file_metadata
            current == Range(discover_project_files(last_run.files))
            changed(p) == is_outdated(last_run.cached.file_metadata[p], last_run.files)
            reuse == Range(last_run.plan.reuse)
            reanalyze == Range(last_run.plan.reanalyze)
            new == Range(last_run.plan.new)
        IN /\ reuse = {p \in cached \cap current : ~changed(p)}
           /\ reanalyze = {p \in cached \cap current : changed(p)}
           /\ new = current \ cached
           /\ (cached \ current) \cap (reuse \cup reanalyze \cup new) = {}
           /\ reuse \cap reanalyze = {}
           /\ reuse \cap new = {}
           /\ reanalyze \cap new = {}

\* C10: with a cache entry and a non-empty file list, the run falls back to a
\* full analysis exactly when the distinct files of reanalyze and new, over
\* the current files, exceed 0.7.
C10_FallbackExactlyAboveThreshold ==
    last_run.route \in {"fallback", "partial", "reuse"} =>
        LET current == discover_project_files(last_run.files)
            distinct == Range(last_run.plan.reanalyze) \cup Range(last_run.plan.new)
        IN (last_run.route = "fallback")
           <=> (ThresholdDen * Cardinality(distinct) > ThresholdNum * Len(current))

(***************************************************************************)
(* analyzer_engine.py: the relationship detectors on their own             *)
(***************************************************************************)
\* three module-level functions f, g and h
FuncF == create_method_id(None, "f", 1)
FuncG == create_method_id(None, "g", 2)
FuncH == create_method_id(None, "h", 3)

DetEntities == {FuncF, FuncG, FuncH}

\* the edges a relationship list may hold
DetEdges == {<<FuncF, FuncG>>, <<FuncG, FuncF>>, <<FuncG, FuncH>>, <<FuncH, FuncF>>,
             <<FuncF, FuncH>>, <<FuncF, FuncF>>}

DetTypes == {"call", "import", "inheritance"}

\* longest relationship list
MaxRelationships == 3

\* Relationship(from_entity, to_entity, relationship_type) of pass 2
Relationship(from_entity, to_entity, relationship_type) ==
    [id |-> create_relationship_id(from_entity, to_entity, relationship_type),
     from_entity |-> from_entity,
     to_entity |-> to_entity,
     relationship_type |-> relationship_type,
     line_number |-> 1,
     file_path |-> "/proj/a.py"]

\* the relationship lists: up to MaxRelationships relationships over different
\* edges, in any order, all of one type or the first of another type
RelationshipLists ==
    UNION {{[k \in 1..n |-> Relationship(edges[k][1], edges[k][2],
                                         IF k = 1 THEN first ELSE rest)] :
               edges \in {e \in [1..n -> DetEdges] : \A i, j \in 1..n : e[i] = e[j] => i = j},
               first \in DetTypes, rest \in {"call", "import"}} :
           n \in 0..MaxRelationships}

DetectorInit ==
    /\ EngineIdle
    /\ CacheIdle
    /\ ManagerIdle
    /\ MatcherIdle
    /\ ExtractorIdle
    /\ ParallelIdle
    /\ det_relationships \in RelationshipLists
    /\ det_order \in Perms(DetEntities)
    /\ det_applied = {}
    /\ det_detailed = <<>>
    /\ det_by_type = NotDetected

\* self._detect_detailed_cycles(classes, methods, relationships)
DetectDetailedCycles ==
    /\ "detailed" \notin det_applied
    /\ det_detailed' = detect_detailed_cycles(det_relationships, det_order)
    /\ det_applied' = det_applied \cup {"detailed"}
    /\ UNCHANGED <<engine_vars, cache_vars, manager_vars, matcher_vars, extractor_vars, parallel_vars, det_relationships, det_order, det_by_type>>

\* self._detect_cycles_by_type(relationships, cycle_type)
DetectCyclesByType ==
    /\ "by_type" \notin det_applied
    /\ \E cycle_type \in {"call", "import"} :
          det_by_type' = [cycle_type |-> cycle_type,
                          cycles |-> detect_cycles_by_type(det_relationships, cycle_type,
                                                           det_order)]
    /\ det_applied' = det_applied \cup {"by_type"}
    /\ UNCHANGED <<engine_vars, cache_vars, manager_vars, matcher_vars, extractor_vars, parallel_vars, det_relationships, det_order, det_detailed>>

DetectorNext ==
    \/ DetectDetailedCycles
    \/ DetectCyclesByType

SpecDetectors == DetectorInit /\ [][DetectorNext]_vars

(***************************************************************************)
(* cache_manager.py: CacheManager                                          *)
(***************************************************************************)
\* the AnalysisCache handed to save_cache at time t
CacheEntry(cache_id, t) == [cache_id |-> cache_id, created_at |-> t]

\* the file <cache_id>.pkl after pickle.dump of that entry at time t
EntryFile(t) == [state |-> "complete", created_at |-> t, st_mtime |-> t]

\* cache_file.stat().st_size, in units of half an entry: a partly written
\* file is shorter than a whole one, an emptied one has no byte
st_size_of(file) ==
    IF file.state = "absent" \/ file.state = "empty" THEN 0
    ELSE IF file.state = "partial" THEN 1
    ELSE 2

\* self.max_cache_size in the same units: one whole entry
MaxCacheSize == 2

\* the calls of one behaviour
MaxTime == 5

\* self.cache_dir.glob("*.pkl")
EntryFiles(dir) == {id \in DOMAIN dir : dir[id].state # "absent"}

RECURSIVE TotalSize(_, _)
TotalSize(dir, ids) ==
    IF ids = {} THEN 0
    ELSE LET id == CHOOSE x \in ids : TRUE
         IN st_size_of(dir[id]) + TotalSize(dir, ids \ {id})

\* the loop of _ensure_cache_size_limit over the files sorted by st_mtime:
\* the ids it removes
RECURSIVE removed_oldest_first(_, _, _)
removed_oldest_first(dir, ids, total_size) ==
    IF ids = {} \/ total_size <= MaxCacheSize THEN {}
    ELSE LET id == CHOOSE x \in ids : \A y \in ids : dir[x].st_mtime <= dir[y].st_mtime
         IN {id} \cup removed_oldest_first(dir, ids \ {id}, total_size - st_size_of(dir[id]))

\* CacheManager._ensure_cache_size_limit: the ids removed
ensure_cache_size_limit(dir) ==
    removed_oldest_first(dir, EntryFiles(dir), TotalSize(dir, EntryFiles(dir)))

\* cache_index.json after _save_cache_index
IndexFile(keys) == [state |-> "valid", keys |-> keys]

\* what pickle.load does on a file: it returns the entry, or raises
\* pickle.PickleError or IOError (both caught by get_cache), or raises
\* EOFError, or another exception, on input that ends early or is not a
\* pickle (the pickle module documents AttributeError, EOFError,
\* ImportError and IndexError beside UnpicklingError)
pickle_load(file) ==
    IF file.state = "complete" THEN {"loaded"}
    ELSE IF file.state = "unreadable" THEN {"IOError"}
    ELSE IF file.state = "empty" THEN {"EOFError"}
    ELSE IF file.state = "partial" THEN {"PickleError", "EOFError"}
    ELSE {"PickleError", "OtherError"}

\* what json.load of cache_index.json does in _load_cache_index
json_load(file) ==
    IF file.state = "valid" THEN {"loaded"}
    ELSE IF file.state = "unreadable" THEN {"IOError"}
    ELSE IF file.state = "truncated" THEN {"JSONDecodeError"}
    ELSE {"JSONDecodeError", "UnicodeDecodeError"}

Call(op, cache_id, outcome, created_at) ==
    [op |-> op, cache_id |-> cache_id, outcome |-> outcome, created_at |-> created_at,
     removed |-> {}, kept |-> {}, used |-> <<>>]

\* the cache directory is empty and no process runs
ManagerInit ==
    /\ EngineIdle
    /\ CacheIdle
    /\ DetectorIdle
    /\ MatcherIdle
    /\ ExtractorIdle
    /\ ParallelIdle
    /\ cache_dir = [id \in CacheIds |-> NoEntryFile]
    /\ cache_index_file = [state |-> "absent", keys |-> {}]
    /\ constructed = FALSE
    /\ cache_index = {}
    /\ memory_cache = [id \in CacheIds |-> NoCache]
    /\ cm_time = 0
    /\ last_use = [id \in CacheIds |-> 0]
    /\ index_created_at = [id \in CacheIds |-> 0]
    /\ week_ago = 0
    /\ cm_call = NoCall

\* datetime.fromisoformat(expires_at) < now, for an entry or an index
\* record created at created_at with expires_at seven days later
expired(created_at) == created_at <= week_ago

\* the expired_keys of _cleanup_expired_caches
expired_keys(index) == {cache_id \in index : expired(index_created_at[cache_id])}

\* CacheManager.__init__: the index is loaded, then _cleanup_expired_caches
\* removes the entries whose index record has expired
Construct ==
    /\ ~constructed
    /\ \E loading \in (IF cache_index_file.state = "absent" THEN {"absent"}
                        ELSE json_load(cache_index_file)) :
          IF loading = "UnicodeDecodeError"
          THEN /\ cm_call' = Call("init", None, "raised", 0)
               /\ UNCHANGED <<constructed, cache_index, cache_dir, cache_index_file>>
          ELSE LET loaded == IF loading = "loaded" THEN cache_index_file.keys ELSE {}
                   removed == expired_keys(loaded)
               IN /\ constructed' = TRUE
                  /\ cache_index' = loaded \ removed
                  /\ cache_dir' = [id \in CacheIds |->
                                      IF id \in removed THEN NoEntryFile ELSE cache_dir[id]]
                  /\ cache_index_file' = IF removed # {} THEN IndexFile(cache_index')
                                         ELSE cache_index_file
                  /\ cm_call' = [Call("init", None, "returned", 0) EXCEPT
                                    !.removed = removed]
    /\ UNCHANGED <<engine_vars, cache_vars, detector_vars, matcher_vars, extractor_vars, parallel_vars>>
    /\ UNCHANGED <<memory_cache, cm_time, last_use, index_created_at, week_ago>>

\* the process ends
Exit ==
    /\ constructed
    /\ constructed' = FALSE
    /\ cache_index' = {}
    /\ memory_cache' = [id \in CacheIds |-> NoCache]
    /\ cm_call' = Call("exit", None, "returned", 0)
    /\ UNCHANGED <<engine_vars, cache_vars, detector_vars, matcher_vars, extractor_vars, parallel_vars>>
    /\ UNCHANGED <<cache_dir, cache_index_file, cm_time, last_use, index_created_at,
                   week_ago>>

\* CacheManager.get_cache(cache_id)
GetCache ==
    /\ constructed
    /\ cm_time < MaxTime
    /\ cm_time' = cm_time + 1
    /\ \E cache_id \in CacheIds :
          IF memory_cache[cache_id] # NoCache
          THEN /\ cm_call' = Call("get", cache_id, "hit", memory_cache[cache_id].created_at)
               /\ last_use' = [last_use EXCEPT ![cache_id] = cm_time']
               /\ UNCHANGED <<cache_dir, cache_index_file, cache_index, memory_cache>>
          ELSE IF cache_id \notin cache_index
          THEN /\ cm_call' = Call("get", cache_id, "miss", 0)
               /\ UNCHANGED <<cache_dir, cache_index_file, cache_index, memory_cache,
                              last_use>>
          ELSE IF cache_dir[cache_id].state = "absent"
          THEN /\ cache_index' = cache_index \ {cache_id}
               /\ cache_index_file' = IndexFile(cache_index')
               /\ cm_call' = Call("get", cache_id, "miss", 0)
               /\ UNCHANGED <<cache_dir, memory_cache, last_use>>
          ELSE \E loading \in pickle_load(cache_dir[cache_id]) :
               IF loading = "loaded"
               THEN /\ memory_cache' = [memory_cache EXCEPT ![cache_id] =
                                           CacheEntry(cache_id, cache_dir[cache_id].created_at)]
                    /\ cm_call' = Call("get", cache_id, "hit", cache_dir[cache_id].created_at)
                    /\ last_use' = [last_use EXCEPT ![cache_id] = cm_time']
                    /\ UNCHANGED <<cache_dir, cache_index_file, cache_index>>
               ELSE IF loading \in {"PickleError", "IOError"}
               THEN \* _remove_cache(cache_id)
                    /\ cache_index' = cache_index \ {cache_id}
                    /\ cache_dir' = [cache_dir EXCEPT ![cache_id] = NoEntryFile]
                    /\ cache_index_file' = IndexFile(cache_index')
                    /\ cm_call' = Call("get", cache_id, "miss", 0)
                    /\ UNCHANGED <<memory_cache, last_use>>
               ELSE /\ cm_call' = Call("get", cache_id, "raised", 0)
                    /\ UNCHANGED <<cache_dir, cache_index_file, cache_index, memory_cache,
                                   last_use>>
    /\ UNCHANGED <<engine_vars, cache_vars, detector_vars, matcher_vars, extractor_vars, parallel_vars>>
    /\ UNCHANGED <<constructed, index_created_at, week_ago>>

\* CacheManager.save_cache(cache): the size limit is enforced, then the
\* entry file is written in place, then the index; when the write raises
\* IOError the entry file is unlinked
SaveCache ==
    /\ constructed
    /\ cm_time < MaxTime
    /\ cm_time' = cm_time + 1
    /\ \E cache_id \in CacheIds, written \in BOOLEAN :
          LET removed == ensure_cache_size_limit(cache_dir)
              swept == [id \in CacheIds |->
                          IF id \in removed THEN NoEntryFile ELSE cache_dir[id]]
          IN /\ cache_dir' = [swept EXCEPT ![cache_id] =
                                 IF written THEN EntryFile(cm_time') ELSE NoEntryFile]
             /\ cache_index' = IF written THEN (cache_index \ removed) \cup {cache_id}
                               ELSE cache_index \ removed
             /\ memory_cache' = [id \in CacheIds |->
                                   IF id = cache_id /\ written THEN CacheEntry(cache_id, cm_time')
                                   ELSE IF id \in removed THEN NoCache
                                   ELSE memory_cache[id]]
             /\ cache_index_file' = IF written \/ removed # {} THEN IndexFile(cache_index')
                                    ELSE cache_index_file
             /\ last_use' = IF written THEN [last_use EXCEPT ![cache_id] = cm_time']
                            ELSE last_use
             /\ index_created_at' =
                   IF written THEN [index_created_at EXCEPT ![cache_id] = cm_time']
                   ELSE index_created_at
             /\ cm_call' = [op |-> "save", cache_id |-> cache_id,
                            outcome |-> IF written THEN "written" ELSE "unlinked",
                            created_at |-> cm_time',
                            removed |-> removed,
                            kept |-> EntryFiles(swept),
                            used |-> last_use]
    /\ UNCHANGED <<engine_vars, cache_vars, detector_vars, matcher_vars, extractor_vars, parallel_vars>>
    /\ UNCHANGED <<constructed, week_ago>>

\* the places of save_cache where the process can be stopped: after
\* open(cache_file, 'wb'), within pickle.dump, before _save_cache_index, and
\* within the json.dump of _save_cache_index
InterruptionPoints == {"opened", "dumping", "dumped", "indexing"}

\* the process is killed inside save_cache(cache)
SaveCacheInterrupted ==
    /\ constructed
    /\ cm_time < MaxTime
    /\ cm_time' = cm_time + 1
    /\ \E cache_id \in CacheIds, point \in InterruptionPoints :
          LET removed == ensure_cache_size_limit(cache_dir)
              swept == [id \in CacheIds |->
                          IF id \in removed THEN NoEntryFile ELSE cache_dir[id]]
              left == IF point = "opened"
                      THEN [state |-> "empty", created_at |-> cm_time', st_mtime |-> cm_time']
                      ELSE IF point = "dumping"
                      THEN [state |-> "partial", created_at |-> cm_time', st_mtime |-> cm_time']
                      ELSE EntryFile(cm_time')
          IN /\ cache_dir' = [swept EXCEPT ![cache_id] = left]
             /\ cache_index_file' =
                   IF point = "indexing"
                   THEN [state |-> "truncated", keys |-> {}]
                   ELSE IF removed # {} THEN IndexFile(cache_index \ removed)
                   ELSE cache_index_file
             /\ cm_call' = [op |-> "save", cache_id |-> cache_id, outcome |-> "killed",
                            created_at |-> cm_time', removed |-> removed,
                            kept |-> EntryFiles(swept), used |-> last_use]
    /\ constructed' = FALSE
    /\ cache_index' = {}
    /\ memory_cache' = [id \in CacheIds |-> NoCache]
    /\ UNCHANGED <<engine_vars, cache_vars, detector_vars, matcher_vars, extractor_vars, parallel_vars>>
    /\ UNCHANGED <<last_use, index_created_at, week_ago>>

\* an entry file is damaged on disk: cut short, emptied, overwritten with
\* other bytes, or made unreadable
DamageEntry ==
    /\ \E cache_id \in CacheIds, state \in {"partial", "empty", "garbage", "unreadable"} :
          /\ cache_dir[cache_id].state = "complete"
          /\ cache_dir' = [cache_dir EXCEPT ![cache_id].state = state]
    /\ cm_call' = Call("damage", None, "returned", 0)
    /\ UNCHANGED <<engine_vars, cache_vars, detector_vars, matcher_vars, extractor_vars, parallel_vars>>
    /\ UNCHANGED <<cache_index_file, constructed, cache_index, memory_cache, cm_time, last_use,
                   index_created_at, week_ago>>

\* cache_index.json is damaged on disk
DamageIndex ==
    /\ cache_index_file.state = "valid"
    /\ \E state \in {"truncated", "garbage", "unreadable"} :
          cache_index_file' = [cache_index_file EXCEPT !.state = state]
    /\ cm_call' = Call("damage", None, "returned", 0)
    /\ UNCHANGED <<engine_vars, cache_vars, detector_vars, matcher_vars, extractor_vars, parallel_vars>>
    /\ UNCHANGED <<cache_dir, constructed, cache_index, memory_cache, cm_time, last_use,
                   index_created_at, week_ago>>

\* time passes between two calls: entries and index records created up to
\* some time t are now more than seven days old
TimePasses ==
    /\ \E t \in (week_ago + 1)..cm_time : week_ago' = t
    /\ cm_call' = Call("wait", None, "returned", 0)
    /\ UNCHANGED <<engine_vars, cache_vars, detector_vars, matcher_vars, extractor_vars, parallel_vars>>
    /\ UNCHANGED <<cache_dir, cache_index_file, constructed, cache_index, memory_cache,
                   cm_time, last_use, index_created_at>>

\* a cache directory used by one process after the other
ManagerNext ==
    \/ Construct
    \/ Exit
    \/ GetCache
    \/ SaveCache

SpecCacheManager == ManagerInit /\ [][ManagerNext]_vars

\* a cache directory that is damaged from outside
DamagedNext ==
    \/ Construct
    \/ Exit
    \/ GetCache
    \/ SaveCache
    \/ DamageEntry
    \/ DamageIndex

SpecDamagedCache == ManagerInit /\ [][DamagedNext]_vars

\* a cache directory written by processes that can be killed while saving
KilledNext ==
    \/ Construct
    \/ Exit
    \/ GetCache
    \/ SaveCache
    \/ SaveCacheInterrupted

SpecKilledWriter == ManagerInit /\ [][KilledNext]_vars

\* a cache directory used over more than the seven days an entry lives
ExpiryNext ==
    \/ Construct
    \/ Exit
    \/ GetCache
    \/ SaveCache
    \/ TimePasses

SpecExpiry == ManagerInit /\ [][ExpiryNext]_vars

(***************************************************************************)
(* Properties of the cycle lists                                           *)
(***************************************************************************)
\* the import edges of a tree, module name to module name, between the
\* modules of the tree
ImportEdges(contents) ==
    LET files == {p \in DOMAIN contents : contents[p] # NoFile}
        names == {get_module_name(p) : p \in files}
    IN {e \in names \X names :
          \E p \in files : /\ get_module_name(p) = e[1]
                            /\ e[2] \in Range(imported_names(p, contents[p]))}

\* the nodes reached from the set `from` by one edge or more
RECURSIVE ReachedFrom(_, _, _)
ReachedFrom(E, from, seen) ==
    LET next == {e[2] : e \in {d \in E : d[1] \in from}} \ seen
    IN IF next = {} THEN seen ELSE ReachedFrom(E, next, seen \cup next)

\* the strongly connected components that hold a cycle: the maximal sets of
\* mutually reachable nodes, a single node only when it has an edge to itself
CyclicComponents(E) ==
    LET nodes == {e[1] : e \in E} \cup {e[2] : e \in E}
        Reach(u) == ReachedFrom(E, {u}, {})
    IN {{v \in nodes : v \in Reach(u) /\ u \in Reach(v)} : u \in {w \in nodes : w \in Reach(w)}}

\* the records of a cycle list that are of one type
CyclesOfType(cycles, cycle_type) == SelectSeq(cycles, LAMBDA c : c.cycle_type = cycle_type)

\* the module ids of a set of module names
ModuleIds(names) == {create_module_id(n) : n \in names}

\* a run over the whole tree returned on the standard path
StandardDone == pc = "done"

\* C11: the cycle list of a returned result holds exactly one import record
\* for every strongly connected component of the import graph that has two
\* modules or more or a module importing itself, and no other record (the
\* trees hold no call edge, so no call record either)
C11_OneRecordPerComponent ==
    StandardDone =>
        LET comps == CyclicComponents(ImportEdges(tree))
            imports == CyclesOfType(result.cycles, "import")
        IN /\ \A comp \in comps :
                 Cardinality({k \in 1..Len(imports) :
                                Range(imports[k].entities) = ModuleIds(comp)}) = 1
           /\ Len(result.cycles) = Cardinality(comps)

\* the integration stage of a standard run is over
Integrated == pc \in {"integrated", "done"}

\* the entity sets of the records of one detection method
ReportedBy(cycles, detection_method) ==
    {Range(cycles[k].entities) :
        k \in {j \in 1..Len(cycles) : cycles[j].detection_method = detection_method}}

\* C12: each of the two import-cycle detectors (over the analyses, over the
\* module list) reports a module set exactly when it is a maximal set of
\* mutually reachable modules with two members or more, or a single module
\* that imports itself
C12_DetectorsReportComponents ==
    Integrated =>
        \A detection_method \in {"ast", "module_list"} :
            ReportedBy(integrated_data.cycles, detection_method)
                = {ModuleIds(comp) : comp \in CyclicComponents(ImportEdges(tree))}

\* the detector over the analyses does report exactly these sets
AstDetectorReportsComponents ==
    Integrated =>
        ReportedBy(integrated_data.cycles, "ast")
            = {ModuleIds(comp) : comp \in CyclicComponents(ImportEdges(tree))}

\* every edge of E between two entities of the record is among its paths
HoldsInnerEdges(cycle, E) ==
    \A e \in E :
        (e[1] \in Range(cycle.entities) /\ e[2] \in Range(cycle.entities)) =>
            \E k \in 1..Len(cycle.paths) :
                cycle.paths[k].from = e[1] /\ cycle.paths[k].to = e[2]

\* the edges of a relationship list
RelationshipEdges(relationships) ==
    {<<relationships[k].from_entity, relationships[k].to_entity>> :
        k \in 1..Len(relationships)}

\* the import edges of a tree, module id to module id
ImportIdEdges(contents) ==
    {<<create_module_id(e[1]), create_module_id(e[2])>> : e \in ImportEdges(contents)}

\* the records of the two import-cycle detectors hold every edge of the import
\* graph that lies inside the component
ImportDetectorsHoldInnerEdges ==
    Integrated =>
        \A k \in 1..Len(integrated_data.cycles) :
            integrated_data.cycles[k].detection_method \in {"ast", "module_list"} =>
                HoldsInnerEdges(integrated_data.cycles[k], ImportIdEdges(tree))

\* C13: in every cycle record of the strongly-connected-component detectors
\* (over the analyses, over the module list, by relationship type) the paths
\* hold every edge u -> v of the graph whose two ends are entities of the record
C13_PathsHoldEveryInnerEdge ==
    /\ ImportDetectorsHoldInnerEdges
    /\ "by_type" \in det_applied =>
          \A k \in 1..Len(det_by_type.cycles) :
              HoldsInnerEdges(det_by_type.cycles[k], RelationshipEdges(det_relationships))

\* the relationship list holds an import relationship from -> to
IsImportRelationship(relationships, from, to) ==
    \E k \in 1..Len(relationships) :
        /\ relationships[k].from_entity = from
        /\ relationships[k].to_entity = to
        /\ relationships[k].relationship_type = "import"

\* C14: every edge listed in an import cycle that the integration stage
\* reports is an import relationship of the relationship list it returns
\* (same from and to ids), and no reported cycle has fewer than two entities
\* unless it is the self-loop of its one entity
C14_CycleEdgesAreRelationships ==
    Integrated =>
        \A k \in 1..Len(integrated_data.cycles) :
            LET cycle == integrated_data.cycles[k]
            IN /\ cycle.cycle_type = "import" =>
                    \A j \in 1..Len(cycle.paths) :
                        IsImportRelationship(integrated_data.relationships,
                                             cycle.paths[j].from, cycle.paths[j].to)
               /\ Len(cycle.entities) < 2 =>
                    /\ Len(cycle.entities) = 1
                    /\ \E j \in 1..Len(cycle.paths) :
                          /\ cycle.paths[j].from = cycle.entities[1]
                          /\ cycle.paths[j].to = cycle.entities[1]

\* C15: every import cycle the integration stage reports, whichever detector
\* made it (over the analyses, over the module list, the pydeps conversion),
\* has severity medium or high, and high whenever it has more than three
\* entities
C15_ImportSeverityByLength ==
    Integrated =>
        \A k \in 1..Len(integrated_data.cycles) :
            LET cycle == integrated_data.cycles[k]
            IN cycle.cycle_type = "import" =>
                  /\ cycle.severity \in {"medium", "high"}
                  /\ Len(cycle.entities) > 3 => cycle.severity = "high"

\* the two detectors of the engine do grade by length
EngineDetectorsGradeByLength ==
    Integrated =>
        \A k \in 1..Len(integrated_data.cycles) :
            LET cycle == integrated_data.cycles[k]
            IN cycle.detection_method \in {"ast", "module_list"} =>
                  cycle.severity = (IF Len(cycle.entities) > 3 THEN "high" ELSE "medium")

\* a run in which these detectors report a cycle of more than three modules
LongImportCycleReported ==
    /\ Integrated
    /\ \E k \in 1..Len(integrated_data.cycles) :
          /\ integrated_data.cycles[k].detection_method \in {"ast", "module_list"}
          /\ Len(integrated_data.cycles[k].entities) > 3

\* every step of the record (an entity to the next one in the list) is a
\* relationship of the given type
StepsAreOfType(cycle, relationships, relationship_type) ==
    \A i \in 1..(Len(cycle.entities) - 1) :
        \E k \in 1..Len(relationships) :
            /\ relationships[k].from_entity = cycle.entities[i]
            /\ relationships[k].to_entity = cycle.entities[i + 1]
            /\ relationships[k].relationship_type = relationship_type

\* the call records of a cycle list are made of call relationships only
CallCyclesFromCalls(cycles, relationships) ==
    \A k \in 1..Len(cycles) :
        cycles[k].cycle_type = "call" => StepsAreOfType(cycles[k], relationships, "call")

\* C16: a call cycle is reported only from call relationships; import,
\* inheritance and attribute edges never contribute to it -- in the cycle
\* list of the integration stage and in what _detect_detailed_cycles returns
\* for a relationship list
C16_CallCyclesFromCallsOnly ==
    /\ Integrated => CallCyclesFromCalls(integrated_data.cycles, integrated_data.relationships)
    /\ "detailed" \in det_applied => CallCyclesFromCalls(det_detailed, det_relationships)

\* the detector was given call relationships only
OnlyCalls ==
    \A k \in 1..Len(det_relationships) : det_relationships[k].relationship_type = "call"

\* C17: every call cycle reported among n distinct methods lists exactly
\* those n entities, each once, with severity low for n <= 2 and medium for
\* more (two functions that call each other: length 2, severity low)
C17_CallCycleListsItsMethodsOnce ==
    ("detailed" \in det_applied /\ OnlyCalls) =>
        \A k \in 1..Len(det_detailed) :
            LET n == Cardinality(Range(det_detailed[k].entities))
            IN /\ Len(det_detailed[k].entities) = n
               /\ det_detailed[k].severity = (IF n <= 2 THEN "low" ELSE "medium")

\* the relationship lists that hold the relationships of `relationships` in
\* another order: the same graph with another insertion order of its nodes
Reorderings(relationships) ==
    {[k \in 1..Len(relationships) |-> relationships[p[k]]] :
        p \in Perms(1..Len(relationships))}

\* C18: for a fixed graph each detector returns the same records (ids, order
\* of the records, order of the entities) whatever the iteration order of
\* the neighbour sets and the insertion order of the nodes
C18_SameRecordsWhateverOrder ==
    /\ pc = "integrated" =>
          \A h \in Perms(CycleModules) :
              integrate_analyses(pydeps_result, ast_analyses, h).cycles = integrated_data.cycles
    /\ "detailed" \in det_applied =>
          \A h \in Perms(DetEntities) : \A relationships \in Reorderings(det_relationships) :
              detect_detailed_cycles(relationships, h) = det_detailed
    /\ "by_type" \in det_applied =>
          \A h \in Perms(DetEntities) : \A relationships \in Reorderings(det_relationships) :
              detect_cycles_by_type(relationships, det_by_type.cycle_type, h)
                  = det_by_type.cycles

\* every set of two or more modules of the tree that import each other is
\* an import record of the cycle list
MutualImportsReportedIn(contents, cycles) ==
    \A comp \in CyclicComponents(ImportEdges(contents)) :
        Cardinality(comp) >= 2 =>
            \E k \in 1..Len(cycles) :
                /\ cycles[k].cycle_type = "import"
                /\ Cardinality(Range(cycles[k].entities)) = Cardinality(comp)

MutualImportsReported(cycles) == MutualImportsReportedIn(tree, cycles)

\* C19: in every run that returns a result, on the standard path and on
\* the large-project path, the import cycles of the modules were detected
\* before the result was assembled: the modules of the tree that import each
\* other are an import cycle of the result
C19_ImportCyclesInEveryResult ==
    /\ Returned => MutualImportsReported(result.cycles)
    /\ HasRun(last_run) =>
          MutualImportsReportedIn(ContentsOf(last_run.files), last_run.result.cycles)

\* the runs that analysed every file report them
FullRunsReportImportCycles ==
    (HasRun(last_run) /\ last_run.route \in {"uncached", "cold", "fallback"}) =>
        MutualImportsReportedIn(ContentsOf(last_run.files), last_run.result.cycles)

\* on the standard path they are
StandardRunsReportImportCycles == StandardDone => MutualImportsReported(result.cycles)

(***************************************************************************)
(* Properties of the excluded files                                        *)
(***************************************************************************)
\* the pattern matcher excludes the file or a directory above it
IsExcluded(p, patterns) ==
    \/ should_exclude(relative_file_path(p), patterns)
    \/ in_pruned_directory(p, patterns)

\* the files that were passed to the AST extractor
Extracted == {extracted[k].path : k \in 1..Len(extracted)}

\* C20: no file that the pattern matcher excludes, or that lies beneath a
\* directory it excludes, is ever passed to the AST extractor, on the
\* standard path and on the large-project path, whatever the exclude patterns
C20_ExcludedFilesNeverExtracted ==
    \A p \in Extracted : ~IsExcluded(p, exclude_patterns)

\* on the standard path no excluded file is extracted
StandardPathSkipsExcluded ==
    pc \notin {"large_done", "large_raised"} => \A p \in Extracted : ~IsExcluded(p, exclude_patterns)

\* a standard run that extracted a file while the patterns exclude another
ExcludedFileSkipped ==
    /\ StandardDone
    /\ Extracted # {}
    /\ \E p \in DOMAIN tree : tree[p] # NoFile /\ IsExcluded(p, exclude_patterns)

(***************************************************************************)
(* Properties of the failures of a run                                     *)
(***************************************************************************)
\* the AST stage of the run is over
Extraction_Over == pc \in {"integrated", "done", "large_done"}

\* the files of the tree with a syntax error, and those that parse
WithSyntaxError == {p \in DOMAIN tree : tree[p] = BadSyntax}

Parsing == {p \in DOMAIN tree : tree[p] \in 1..Len(Programs)}

\* the FileAnalysis of a file with a syntax error: a module descriptor, no
\* entity, a diagnostic
IsSyntaxErrorAnalysis(analysis, p) ==
    /\ analysis # NoAnalysis
    /\ analysis.file_path = p
    /\ analysis.module_info.id = create_module_id(get_module_name(p))
    /\ analysis.module_info.name = get_module_name(p)
    /\ analysis.classes = <<>>
    /\ analysis.methods = <<>>
    /\ analysis.fields = <<>>
    /\ analysis.imports = <<>>
    /\ analysis.relationships = <<>>
    /\ analysis.parse_error \notin {None, ""}

Unreadable == {p \in DOMAIN tree : tree[p] = Undecodable}

\* len() of a list of analyses that may hold the run of generated modules
RECURSIVE NumAnalyses(_)
NumAnalyses(analyses) ==
    IF analyses = <<>> THEN 0
    ELSE Head(analyses).module_info.count + NumAnalyses(Tail(analyses))

\* C22: a discovered file that cannot be read leaves a FileAnalysis with a
\* non-empty parse_error and the run goes on, so that integration is handed
\* as many FileAnalysis values as files were given to extraction
C22_UnreadableFileIsRecorded ==
    Extraction_Over =>
        /\ NumAnalyses(ast_analyses) = CountLen(project_files)
        /\ \A p \in Unreadable :
              \E k \in 1..Len(ast_analyses) :
                  /\ ast_analyses[k].file_path = p
                  /\ ast_analyses[k].parse_error \notin {None, ""}

\* when every discovered file can be read, integration is handed one
\* FileAnalysis per file
ReadableFilesAllRecorded ==
    (Extraction_Over /\ Unreadable = {}) =>
        NumAnalyses(ast_analyses) = CountLen(project_files)

\* discovery found no candidate file under the root
NoCandidateFile == pc # "idle" /\ project_files = <<>>

\* C23: analyze_project on a root under which discovery finds no candidate
\* file (a missing or unreadable root is walked as an empty one) fails and
\* returns no AnalysisResult
C23_NoCandidateFileFailsTheRun ==
    NoCandidateFile => result = NoResult

(***************************************************************************)
(* Properties of the cache directory                                       *)
(***************************************************************************)
\* get_cache has just returned or raised
GetCacheCalled == cm_call.op = "get"

\* a miss leaves no index entry behind, and a hit returns a whole entry
MissesAreDropped ==
    GetCacheCalled =>
        /\ cm_call.outcome = "miss" => cm_call.cache_id \notin cache_index
        /\ cm_call.outcome = "hit" =>
              memory_cache[cm_call.cache_id] = CacheEntry(cm_call.cache_id, cm_call.created_at)

\* C24: when the cache index or an entry file is corrupt, truncated or
\* unreadable, get_cache returns None without raising and the bad entry is
\* dropped, and the CacheManager is built with an empty index, so that
\* analyze_project goes on with a full analysis
C24_DamagedCacheIsAMiss ==
    /\ GetCacheCalled => cm_call.outcome \in {"hit", "miss"}
    /\ cm_call.op = "init" => cm_call.outcome = "returned"
    /\ MissesAreDropped

\* the index is damaged only in ways json.load reports as JSONDecodeError:
\* the CacheManager is built
TruncatedIndexIsEmpty ==
    (cm_call.op = "init" /\ cache_index_file.state \in {"truncated", "unreadable"}) =>
        (cm_call.outcome = "returned" /\ cache_index = {})

\* the entry files that hold the beginning of an entry only
Incomplete == {id \in CacheIds : cache_dir[id].state \in {"empty", "partial"}}

\* the index on disk names no entry whose file is incomplete
IndexNamesWholeFiles ==
    cache_index_file.state = "valid" => cache_index_file.keys \cap Incomplete = {}

\* C25: save_cache replaces an entry atomically: when a write is
\* interrupted, a later get_cache of that id returns the whole entry stored
\* before or a miss, never a partly written entry, and the index never names
\* an entry whose file is incomplete
C25_SaveCacheIsAtomic ==
    /\ GetCacheCalled => cm_call.outcome \in {"hit", "miss"}
    /\ (GetCacheCalled /\ cm_call.outcome = "hit") =>
          memory_cache[cm_call.cache_id] = CacheEntry(cm_call.cache_id, cm_call.created_at)
    /\ IndexNamesWholeFiles

\* a partly written entry is never returned as data
NoPartialEntryReturned ==
    (GetCacheCalled /\ cm_call.outcome = "hit") =>
        /\ memory_cache[cm_call.cache_id] = CacheEntry(cm_call.cache_id, cm_call.created_at)
        /\ cm_call.cache_id \notin Incomplete

\* save_cache has just enforced the size limit
LimitEnforced == cm_call.op = "save"

\* C27: when save_cache finds the cache directory over its byte budget it
\* removes the least recently used entries first: no entry that get_cache
\* read or save_cache wrote later than another one is removed while that
\* other one stays
C27_LeastRecentlyUsedGoFirst ==
    LimitEnforced =>
        \A gone \in cm_call.removed, left \in cm_call.kept :
            cm_call.used[gone] <= cm_call.used[left]

(***************************************************************************)
(* Properties of the results of cached runs                                *)
(***************************************************************************)
\* the part of C2 about the incremental path: the result of a run that went
\* through the cache names listed parents only
CachedRunsListParents == HasRun(last_run) => ParentsListed(last_run.result)

(***************************************************************************)
(* Properties of the progress updates                                      *)
(***************************************************************************)
\* the stage of the progress contract that an update of the code belongs to,
\* by the text it carries
StageOf(text) ==
    CASE text = "Discovering project files" -> "discovering"
      [] text \in {"Analyzing project complexity",
                   "Large project detected, using optimized analysis",
                   "Project size manageable, using standard analysis"} -> "estimating"
      [] text \in {"Checking cache validity", "Performing incremental analysis"}
            -> "checking-cache"
      [] text \in {"Initializing large project analysis", "Large project: Processed files",
                   "Running module-level analysis", "Analyzing code structure",
                   "Analyzing file"} -> "extracting"
      [] text \in {"Integrating analysis results", "Completing large project analysis",
                   "Skipping quality metrics (fast mode)"} -> "integrating"
      [] text \in {"Assembling final results", "Assembling results with pagination"}
            -> "assembling"
      [] text = "Saving analysis cache" -> "caching"
      [] text \in {"Analysis complete", "Incremental analysis complete"} -> "done"
      [] OTHER -> "failed"

\* the call of analyze_project has returned or raised
CallEnded == pc \in {"done", "large_done", "large_raised"}

\* C28: when analyze_project returns or raises, on whichever path, the last
\* progress update it emitted is a terminal one: the completion stage when
\* it returns a result, a failed stage when it raises
C28_LastUpdateIsTerminal ==
    CallEnded =>
        /\ progress # <<>>
        /\ StageOf(progress[Len(progress)].stage)
               = (IF pc = "large_raised" THEN "failed" ELSE "done")

\* the part of C28 about the standard path without a cache
StandardRunEndsWithCompletion ==
    pc = "done" => StageOf(progress[Len(progress)].stage) = "done"

(***************************************************************************)
(* Properties of the writers of the cache                                  *)
(***************************************************************************)
\* C26: during a run the cache is written only by the orchestrator, at
\* moments when no extraction worker is running: no step changes the cache
\* entry while a task of the worker pool is running, and no step of a worker
\* changes it
C26_CacheWrittenWithNoWorkerRunning ==
    [][cache_store' # cache_store => (running = {} /\ running' = {})]_vars

\* a run whose extraction went through the worker pool has saved its result
PoolRunSavedCache ==
    /\ pc = "done"
    /\ UsesWorkerPool
    /\ cache_store # NoCache
    /\ cache_store.analysis_result = result

\* the stages of the progress contract in their order
StageOrder ==
    <<"discovering", "estimating", "checking-cache", "extracting", "integrating",
      "detecting-cycles", "assembling", "caching", "done", "failed">>

StageRank(stage) == CHOOSE k \in 1..Len(StageOrder) : StageOrder[k] = stage

\* no update of the list belongs to a stage that comes before the stage of
\* an earlier update
InStageOrder(updates) ==
    \A i, j \in 1..Len(updates) :
        i < j => StageRank(StageOf(updates[i].stage)) <= StageRank(StageOf(updates[j].stage))

\* C29: within one run of analyze_project the progress stages are emitted in
\* the order discovering, estimating, checking-cache, extracting,
\* integrating, detecting-cycles, assembling, caching, done: once a stage has
\* been emitted no earlier stage follows, on any path, the fallback from the
\* incremental to the full analysis included
C29_StagesInOrder == InStageOrder(progress)

\* the part of C29 about the runs in which the incremental analysis does not
\* raise
StagesInOrderUnlessRaised == route # "raised" => InStageOrder(progress)

(***************************************************************************)
(* gitignore_patterns.py: patterns with wildcards                          *)
(***************************************************************************)
\* Here a pattern and a path are strings given character by character.
\* The patterns a matcher is constructed from:
\* "*.py"
PatStarPy == <<"*", ".", "p", "y">>

\* "!keep/*.py"
PatNotKeepStarPy == <<"!", "k", "e", "e", "p", "/", "*", ".", "p", "y">>

\* "keep/"
PatKeepDir == <<"k", "e", "e", "p", "/">>

\* "/a.py"
PatRootA == <<"/", "a", ".", "p", "y">>

\* "a.py"
PatA == <<"a", ".", "p", "y">>

\* "!a.py"
PatNotA == <<"!", "a", ".", "p", "y">>

\* "#a.py"
PatComment == <<"#", "a", ".", "p", "y">>

\* " "
PatBlank == <<" ">>

\* " *.py "
PatPaddedStarPy == <<" ", "*", ".", "p", "y", " ">>

\* "**/a.py"
PatAnyDepthA == <<"*", "*", "/", "a", ".", "p", "y">>

\* "keep/**"
PatBelowKeep == <<"k", "e", "e", "p", "/", "*", "*">>

\* "?.py"
PatOneCharPy == <<"?", ".", "p", "y">>

\* "[ab].py"
PatClassPy == <<"[", "a", "b", "]", ".", "p", "y">>

\* "keep/*.py"
PatKeepStarPy == <<"k", "e", "e", "p", "/", "*", ".", "p", "y">>

\* "keep/**/a.py"
PatKeepAnyA == <<"k", "e", "e", "p", "/", "*", "*", "/", "a", ".", "p", "y">>

RawPatterns ==
    {PatStarPy, PatNotKeepStarPy, PatKeepDir, PatRootA,
     PatA, PatNotA, PatComment, PatBlank,
     PatPaddedStarPy, PatAnyDepthA, PatBelowKeep, PatOneCharPy,
     PatKeepStarPy, PatKeepAnyA,
     PatClassPy}

\* pattern lists of up to MaxPatterns patterns
MaxPatterns == 2

PatternLists == UNION {[1..n -> RawPatterns] : n \in 0..MaxPatterns}

\* the paths, relative to the project root, should_exclude is asked about
\* "a.py"
PathA == <<"a", ".", "p", "y">>

\* "a.txt"
PathTxt == <<"a", ".", "t", "x", "t">>

\* "keep"
PathKeep == <<"k", "e", "e", "p">>

\* "keep/a.py"
PathKeepA == <<"k", "e", "e", "p", "/", "a", ".", "p", "y">>

\* "keep/sub/a.py"
PathKeepSubA == <<"k", "e", "e", "p", "/", "s", "u", "b", "/", "a", ".", "p", "y">>

\* "src/a.py"
PathSrcA == <<"s", "r", "c", "/", "a", ".", "p", "y">>

\* "src/keep/a.py"
PathSrcKeepA == <<"s", "r", "c", "/", "k", "e", "e", "p", "/", "a", ".", "p", "y">>

\* "keep/a.txt"
PathKeepTxt == <<"k", "e", "e", "p", "/", "a", ".", "t", "x", "t">>

\* "src/b.py"
PathSrcB == <<"s", "r", "c", "/", "b", ".", "p", "y">>

MatcherPaths ==
    {PathA, PathTxt, PathKeep, PathKeepA,
     PathKeepSubA, PathSrcA, PathSrcKeepA, PathKeepTxt,
     PathSrcB}

\* str.strip(): the blanks at both ends are cut
RECURSIVE lstrip(_)
lstrip(s) == IF s # <<>> /\ Head(s) = " " THEN lstrip(Tail(s)) ELSE s

RECURSIVE rstrip(_)
rstrip(s) == IF s # <<>> /\ s[Len(s)] = " " THEN rstrip(SubSeq(s, 1, Len(s) - 1)) ELSE s

strip(s) == rstrip(lstrip(s))

\* str.startswith and str.endswith
startswith(s, prefix) == Len(s) >= Len(prefix) /\ SubSeq(s, 1, Len(prefix)) = prefix

endswith(s, suffix) ==
    Len(s) >= Len(suffix) /\ SubSeq(s, Len(s) - Len(suffix) + 1, Len(s)) = suffix

\* the index of the "]" that closes the character class opened just before
\* position i of pat, or 0 when there is none (fnmatch.translate: a "!" and
\* then a "]" right after the "[" belong to the class)
class_end(pat, i) ==
    LET j0 == IF i <= Len(pat) /\ pat[i] = "!" THEN i + 1 ELSE i
        j1 == IF j0 <= Len(pat) /\ pat[j0] = "]" THEN j0 + 1 ELSE j0
        closing == {j \in j1..Len(pat) : pat[j] = "]"}
    IN IF closing = {} THEN 0 ELSE CHOOSE j \in closing : \A k \in closing : j <= k

\* fnmatch.fnmatch(name, pat) on POSIX: "*" matches any run of characters,
\* the separator included, "?" one character, "[...]" a character of the
\* class ("[!...]" one outside it; the patterns here hold no range), any
\* other character itself; the whole name has to match
RECURSIVE fnmatch(_, _)
fnmatch(name, pat) ==
    IF pat = <<>> THEN name = <<>>
    ELSE IF Head(pat) = "*"
    THEN \/ fnmatch(name, Tail(pat))
         \/ name # <<>> /\ fnmatch(Tail(name), pat)
    ELSE IF Head(pat) = "?"
    THEN name # <<>> /\ fnmatch(Tail(name), Tail(pat))
    ELSE IF Head(pat) = "[" /\ class_end(pat, 2) # 0
    THEN LET j == class_end(pat, 2)
             negated == pat[2] = "!"
             members == {pat[k] : k \in (IF negated THEN 3 ELSE 2)..(j - 1)}
         IN /\ name # <<>>
            /\ (Head(name) \in members) # negated
            /\ fnmatch(Tail(name), SubSeq(pat, j + 1, Len(pat)))
    ELSE name # <<>> /\ Head(name) = Head(pat) /\ fnmatch(Tail(name), Tail(pat))

\* Path(path_str).parts: the components between the separators
RECURSIVE path_parts(_)
path_parts(path_str) ==
    IF \A k \in 1..Len(path_str) : path_str[k] # "/" THEN <<path_str>>
    ELSE LET cut == CHOOSE k \in 1..Len(path_str) :
                        path_str[k] = "/" /\ \A i \in 1..(k - 1) : path_str[i] # "/"
         IN <<SubSeq(path_str, 1, cut - 1)>>
            \o path_parts(SubSeq(path_str, cut + 1, Len(path_str)))

\* os.path.basename and os.path.dirname of a relative path
basename(path_str) == LET parts == path_parts(path_str) IN parts[Len(parts)]

dirname(path_str) ==
    LET cut == Len(path_str) - Len(basename(path_str))
    IN IF cut = 0 THEN <<>> ELSE SubSeq(path_str, 1, cut - 1)

\* GitIgnorePatternMatcher.__init__: blank patterns and comments are
\* skipped, a pattern after "!" goes to include_patterns, any other to
\* exclude_patterns
RECURSIVE GitIgnorePatternMatcher(_)
GitIgnorePatternMatcher(patterns) ==
    IF patterns = <<>>
    THEN [patterns |-> <<>>, include_patterns |-> <<>>, exclude_patterns |-> <<>>]
    ELSE LET rest == GitIgnorePatternMatcher(Tail(patterns))
             pattern == strip(Head(patterns))
         IN IF pattern = <<>> \/ Head(pattern) = "#"
            THEN [rest EXCEPT !.patterns = <<Head(patterns)>> \o @]
            ELSE IF Head(pattern) = "!"
            THEN [rest EXCEPT !.patterns = <<Head(patterns)>> \o @,
                              !.include_patterns = <<Tail(pattern)>> \o @]
            ELSE [rest EXCEPT !.patterns = <<Head(patterns)>> \o @,
                              !.exclude_patterns = <<pattern>> \o @]

\* GitIgnorePatternMatcher._match_name_parts with wildcards: the whole path,
\* its name or one of its parts matches the pattern
match_name_parts_str(path_str, pattern) ==
    \/ fnmatch(path_str, pattern)
    \/ fnmatch(basename(path_str), pattern)
    \/ \E k \in 1..Len(path_parts(path_str)) : fnmatch(path_parts(path_str)[k], pattern)

\* str.replace("**", "*")
RECURSIVE replace_double_star(_)
replace_double_star(pattern) ==
    IF Len(pattern) < 2 THEN pattern
    ELSE IF pattern[1] = "*" /\ pattern[2] = "*"
    THEN <<"*">> \o replace_double_star(SubSeq(pattern, 3, Len(pattern)))
    ELSE <<Head(pattern)>> \o replace_double_star(Tail(pattern))

\* GitIgnorePatternMatcher._match_double_star
match_double_star(path_str, pattern) ==
    IF pattern = <<"*", "*">> THEN TRUE
    ELSE IF startswith(pattern, <<"*", "*", "/">>)
    THEN fnmatch(basename(path_str), SubSeq(pattern, 4, Len(pattern)))
    ELSE IF endswith(pattern, <<"/", "*", "*">>)
    THEN fnmatch(dirname(path_str), SubSeq(pattern, 1, Len(pattern) - 3))
    ELSE fnmatch(path_str, replace_double_star(pattern))

\* GitIgnorePatternMatcher._match_pattern with wildcards; is_dir is what
\* path_obj.is_dir() answers
match_pattern_str(path_str, is_dir, pattern) ==
    IF startswith(pattern, <<"/">>) THEN fnmatch(path_str, Tail(pattern))
    ELSE IF endswith(pattern, <<"/">>)
    THEN is_dir /\ match_name_parts_str(path_str, SubSeq(pattern, 1, Len(pattern) - 1))
    ELSE IF \E k \in 1..(Len(pattern) - 1) : pattern[k] = "*" /\ pattern[k + 1] = "*"
    THEN match_double_star(path_str, pattern)
    ELSE match_name_parts_str(path_str, pattern)

\* should_exclude returning as soon as an exclude pattern matched
should_exclude_str_without_rescue(m, path_str, is_dir) ==
    \E k \in 1..Len(m.exclude_patterns) :
        match_pattern_str(path_str, is_dir, m.exclude_patterns[k])

\* GitIgnorePatternMatcher.should_exclude with wildcards
should_exclude_str(m, path_str, is_dir) ==
    LET excluded == \E k \in 1..Len(m.exclude_patterns) :
                        match_pattern_str(path_str, is_dir, m.exclude_patterns[k])
    IN IF ~excluded THEN FALSE
       ELSE IF \E k \in 1..Len(m.include_patterns) :
                   match_pattern_str(path_str, is_dir, m.include_patterns[k])
       THEN FALSE
       ELSE excluded

\* no engine, cache or detector is in use; no matcher is constructed
MatcherInit ==
    /\ EngineIdle
    /\ CacheIdle
    /\ DetectorIdle
    /\ ManagerIdle
    /\ MatcherIdle
    /\ ExtractorIdle
    /\ ParallelIdle

\* create_gitignore_matcher(patterns)
CreateMatcher ==
    /\ matcher = NoMatcher
    /\ \E patterns \in PatternLists : matcher' = GitIgnorePatternMatcher(patterns)
    /\ checked' = NoCheck
    /\ UNCHANGED <<engine_vars, cache_vars, detector_vars, manager_vars, extractor_vars, parallel_vars>>

\* matcher.should_exclude(file_path) on a path that is a directory or a file
ShouldExclude ==
    /\ matcher # NoMatcher
    /\ \E path_str \in MatcherPaths, is_dir \in BOOLEAN :
          checked' = [path |-> path_str, is_dir |-> is_dir,
                      excluded |-> should_exclude_str(matcher, path_str, is_dir)]
    /\ UNCHANGED matcher
    /\ UNCHANGED <<engine_vars, cache_vars, detector_vars, manager_vars, extractor_vars, parallel_vars>>

MatcherNext ==
    \/ CreateMatcher
    \/ ShouldExclude

SpecMatcher == MatcherInit /\ [][MatcherNext]_vars

(***************************************************************************)
(* Properties of the pattern matcher                                       *)
(***************************************************************************)
\* some pattern of the list that is no comment, not blank and does not
\* begin with "!" matches the path
SomeExcludePatternMatches(patterns, path_str, is_dir) ==
    \E k \in 1..Len(patterns) :
        LET pattern == strip(patterns[k])
        IN /\ pattern # <<>>
           /\ Head(pattern) \notin {"#", "!"}
           /\ match_pattern_str(path_str, is_dir, pattern)

\* some pattern of the list that begins with "!" matches the path with what
\* follows the "!"
SomeReIncludePatternMatches(patterns, path_str, is_dir) ==
    \E k \in 1..Len(patterns) :
        LET pattern == strip(patterns[k])
        IN /\ pattern # <<>>
           /\ Head(pattern) = "!"
           /\ match_pattern_str(path_str, is_dir, Tail(pattern))

\* the path lies under the directory keep of the project root
UnderKeep(path_str) == Len(path_parts(path_str)) > 1 /\ path_parts(path_str)[1] = PathKeep

OtherSourceFileExcluded ==
    /\ checked # NoCheck
    /\ matcher.patterns = <<PatStarPy, PatNotKeepStarPy>>
    /\ checked.path = PathSrcA
    /\ checked.excluded

\* the path names a .py file lying directly in the directory keep of the
\* project root
PyFileDirectlyInKeep(path_str) ==
    /\ Len(path_parts(path_str)) = 2
    /\ path_parts(path_str)[1] = PathKeep
    /\ endswith(path_str, <<".", "p", "y">>)

\* C31: in a pattern, * matches only runs of characters that hold no path
\* separator: for every path, the pattern keep/*.py matches the .py files
\* lying directly in keep (keep/a.py) and no other path (not keep/sub/a.py)
C31_StarStopsAtSeparator ==
    (checked # NoCheck /\ matcher.patterns = <<PatKeepStarPy>>)
        => checked.excluded = PyFileDirectlyInKeep(checked.path)

\* the pattern keep/*.py matches every .py file lying directly in keep and no
\* path outside keep
StarMatchesWithinComponent ==
    (checked # NoCheck /\ matcher.patterns = <<PatKeepStarPy>>)
        => /\ PyFileDirectlyInKeep(checked.path) => checked.excluded
           /\ checked.excluded => UnderKeep(checked.path)

\* the path names a file a.py lying in keep or in any directory beneath it
FileABelowKeep(path_str) == UnderKeep(path_str) /\ basename(path_str) = PathA

\* C32: in a pattern, ** matches any number of path components, zero
\* included: keep/**/a.py matches keep/a.py and keep/sub/a.py, **/a.py
\* matches a.py at every depth, the root included, and keep/** matches
\* everything beneath keep at every depth
C32_DoubleStarAnyDepth ==
    checked # NoCheck =>
        /\ matcher.patterns = <<PatKeepAnyA>>
              => checked.excluded = FileABelowKeep(checked.path)
        /\ matcher.patterns = <<PatAnyDepthA>>
              => checked.excluded = (basename(checked.path) = PathA)
        /\ matcher.patterns = <<PatBelowKeep>>
              => checked.excluded = UnderKeep(checked.path)

\* the pattern **/a.py matches exactly the paths whose last component is
\* a.py
LeadingDoubleStarAnyDepth ==
    (checked # NoCheck /\ matcher.patterns = <<PatAnyDepthA>>)
        => checked.excluded = (basename(checked.path) = PathA)

(***************************************************************************)
(* Properties of the relationship list of a result                         *)
(***************************************************************************)
\* the per-file relationship lists of the run, one after the other
ExtractedRelationships ==
    Flatten([k \in 1..Len(ast_analyses) |-> ast_analyses[k].relationships])

\* how many times x stands in the list s
Occurrences(s, x) == Cardinality({i \in 1..Len(s) : s[i] = x})

\* C33: the relationship list of a returned result is the concatenation of
\* the per-file relationship lists: every relationship extracted from a
\* file, those with an unresolved to side included, stands in it as many
\* times as it was extracted (beside the module-level relationships of
\* pydeps), nothing dropped and nothing duplicated
C33_RelationshipsConcatenated ==
    Returned =>
        \A x \in Range(ExtractedRelationships) :
            Occurrences(result.relationships, x)
                = Occurrences(ExtractedRelationships, x)
                  + Occurrences(pydeps_result.relationships, x)

\* no extracted relationship is missing from a returned result, whether its
\* to side names a known entity or not
NoRelationshipDropped ==
    Returned =>
        \A x \in Range(ExtractedRelationships) :
            Occurrences(result.relationships, x) >= Occurrences(ExtractedRelationships, x)

(***************************************************************************)
(* Properties of _run_sequential_ast_analysis                              *)
(***************************************************************************)
\* the run is in, or past, the loop of _run_sequential_ast_analysis
SequentialRun == pc \in {"ast", "integrated", "done"} /\ ~UsesWorkerPool

\* the files the loop has gone through
FilesDone == SubSeq(project_files, 1, cursor)

\* the number of update() calls made for files
RECURSIVE FileUpdates(_)
FileUpdates(updates) ==
    IF updates = <<>> THEN 0
    ELSE (IF Head(updates).stage = "Analyzing file" THEN Head(updates).times ELSE 0)
         + FileUpdates(Tail(updates))

\* C34: _run_sequential_ast_analysis returns exactly one FileAnalysis per
\* input file, in input order, a file with a syntax error contributing an
\* analysis that carries parse_error, and emits exactly one progress update
\* per input file
C34_OneAnalysisPerFile ==
    SequentialRun =>
        /\ Len(ast_analyses) = Len(FilesDone)
        /\ \A k \in 1..Len(FilesDone) :
              k <= Len(ast_analyses) =>
                 /\ ast_analyses[k].file_path = FilesDone[k].path
                 /\ ast_analyses[k].module_info.count = FilesDone[k].count
                 /\ (FilesDone[k].path \in WithSyntaxError)
                        => ast_analyses[k].parse_error \notin {None, ""}
        /\ FileUpdates(progress) = CountLen(FilesDone)

\* the loop emits exactly one progress update per input file, and the
\* analyses it collects are those of the readable files, in input order
SequentialUpdatesAndOrder ==
    SequentialRun =>
        /\ FileUpdates(progress) = CountLen(FilesDone)
        /\ LET readable == SelectSeq(FilesDone,
                               LAMBDA e : analyze_entry(e, tree) # NoAnalysis)
           IN /\ Len(ast_analyses) = Len(readable)
              /\ \A k \in 1..Len(readable) :
                    /\ ast_analyses[k].file_path = readable[k].path
                    /\ (readable[k].path \in WithSyntaxError)
                           => ast_analyses[k].parse_error \notin {None, ""}

(***************************************************************************)
(* analyzer_engine.py: the large-project path on files of every size       *)
(***************************************************************************)
\* the trees of a large project: the small files hold any content, an
\* oversized one included, beside the generated modules
StreamingTrees == [SmallFiles -> (0..Undecodable) \cup {Oversized}]

StreamingInit ==
    /\ CacheIdle
    /\ DetectorIdle
    /\ ManagerIdle
    /\ MatcherIdle
    /\ ExtractorIdle
    /\ ParallelIdle
    /\ tree \in StreamingTrees
    /\ hash_order = <<>>
    /\ exclude_patterns = DefaultExcludePatterns
    /\ generated = GeneratedModules
    /\ max_workers = 1
    /\ enable_performance_optimization = TRUE
    /\ pc = "idle"
    /\ current_analysis_id = None
    /\ project_files = <<>>
    /\ pydeps_result = run_pydeps_analysis(EmptyDepGraph)
    /\ ast_analyses = <<>>
    /\ cursor = 0
    /\ running = {}
    /\ integrated_data = <<>>
    /\ result = NoResult
    /\ progress = <<>>
    /\ extracted = <<>>
    /\ route = "full"
    /\ incremental_files = <<>>

StreamingNext ==
    \/ DiscoverProjectFiles
    \/ AnalyzeLargeProject

SpecStreaming == StreamingInit /\ [][StreamingNext]_vars

(***************************************************************************)
(* Properties of the large-project path                                    *)
(***************************************************************************)
\* _analyze_large_project has returned or raised
StreamingEnded == pc \in {"large_done", "large_raised"}

\* the files of the tree, and those among them within the per-file cap
Listed == {p \in DOMAIN tree : tree[p] # NoFile}

WithinCap == {p \in Listed : file_size(tree[p]) <= MaxFileSizeBytes}

\* how many times the file p was passed to the extractor
TimesPassed(p) == Cardinality({k \in 1..Len(extracted) : extracted[k].path = p})

\* how many generated modules were passed to the extractor
GeneratedPassed ==
    CountLen(SelectSeq(extracted, LAMBDA e : e.path = FileGen))

\* C35: on the large-project path every file selected for streaming whose
\* size is within the per-file cap is passed to the extractor exactly once
\* (the batches cut the list in order), the files above the cap are never
\* passed, and every FileAnalysis the batches produce is in the data handed
\* to integration exactly once
C35_EveryFileStreamedOnce ==
    StreamingEnded =>
        /\ \A p \in WithinCap : TimesPassed(p) = 1
        /\ GeneratedPassed = generated
        /\ \A p \in Listed \ WithinCap : TimesPassed(p) = 0
        /\ integrated_data # <<>>
        /\ NumAnalyses(analyze_all(extracted, tree)) = CountLen(integrated_data.modules)

\* no file above the cap is passed to the extractor, no file is passed
\* twice, and the files passed are one batch at most when the run raises
OversizedNeverPassed ==
    StreamingEnded =>
        /\ \A p \in Listed \ WithinCap : TimesPassed(p) = 0
        /\ \A p \in WithinCap : TimesPassed(p) <= 1
        /\ GeneratedPassed <= generated
        /\ pc = "large_raised" => CountLen(extracted) <= BatchSize

\* a large project with a file above the cap has been streamed
OversizedFileStreamed ==
    /\ StreamingEnded
    /\ Listed \ WithinCap # {}

(***************************************************************************)
(* ast_analyzer.py: ASTAnalyzer on one file with calls and assignments     *)
(***************************************************************************)
\* the statements of a function body, each on one line:
\*   f()                a call
\*   def g(): h()       a nested function that calls h
\*   self.y = 1         an assignment to an attribute of self
\*   z = 1              an assignment to a name
Statement(kind, lineno) ==
    CASE kind = "call"   -> CallStmt("f", lineno)
      [] kind = "nested" -> FunctionDef("g", lineno, <<CallStmt("h", lineno)>>)
      [] kind = "self"   -> Assign("SelfAttr", "y", lineno)
      [] kind = "local"  -> Assign("Name", "z", lineno)

StatementKinds == {"call", "nested", "self", "local"}

\* bodies of up to MaxStatements statements
MaxStatements == 3

BodyShapes == UNION {[1..n -> StatementKinds] : n \in 0..MaxStatements}

\* the body of a function whose def is at line lineno
Body(shape, lineno) == [k \in 1..Len(shape) |-> Statement(shape[k], lineno + k)]

\* class C:                 (1)
\*     x = 0                (2)
\*     def <name>(self):    (3)
\*         <body>           (4..)
ClassProgram(name, shape) ==
    <<ClassDef("C", 1, <<>>,
        <<Assign("Name", "x", 2), FunctionDef(name, 3, Body(shape, 3))>>)>>

\* def run():               (1)
\*     <body>               (2..)
FunctionProgram(shape) == <<FunctionDef("run", 1, Body(shape, 1))>>

ExtractorPrograms ==
    {ClassProgram(name, shape) : name \in {"__init__", "m"}, shape \in BodyShapes}
    \cup {FunctionProgram(shape) : shape \in BodyShapes}

ExtractorInit ==
    /\ EngineIdle
    /\ CacheIdle
    /\ DetectorIdle
    /\ ManagerIdle
    /\ MatcherIdle
    /\ ExtractorIdle
    /\ ParallelIdle

\* ASTAnalyzer().analyze_file(path) on a file that parses
AnalyzeSource ==
    /\ file_analysis = NoAnalysis
    /\ \E program \in ExtractorPrograms :
          /\ source' = program
          /\ file_analysis' = analyze_tree(FilePkgA, program)
    /\ UNCHANGED <<engine_vars, cache_vars, detector_vars, manager_vars, matcher_vars,
                   parallel_vars>>

ExtractorNext == AnalyzeSource

SpecExtractor == ExtractorInit /\ [][ExtractorNext]_vars

(***************************************************************************)
(* Properties of the two passes                                            *)
(***************************************************************************)
\* no function encloses the node
NoFunction == [name |-> None, lineno |-> 0]

\* the call expressions of a tree that lie in a function body: the line and
\* callee of each, the innermost function enclosing it, and whether a
\* function definition stands before it in the body of that function
RECURSIVE CallSites(_, _, _)
CallSites(nodes, enclosing, after_def) ==
    IF nodes = <<>> THEN {}
    ELSE LET node == Head(nodes)
             here ==
                 CASE node.kind = "Call" ->
                        IF enclosing = NoFunction THEN {}
                        ELSE {[lineno |-> node.lineno, name |-> node.name,
                               enclosing |-> enclosing, after_def |-> after_def]}
                   [] node.kind = "FunctionDef" ->
                        CallSites(node.body, [name |-> node.name, lineno |-> node.lineno],
                                  FALSE)
                   [] OTHER -> CallSites(node.body, enclosing, after_def)
         IN here \cup CallSites(Tail(nodes), enclosing,
                                after_def \/ node.kind = "FunctionDef")

\* the id the symbol table gives the function defined at that line
MethodIdOf(fn) ==
    LET at == CHOOSE k \in 1..Len(file_analysis.methods) :
                  /\ file_analysis.methods[k].name = fn.name
                  /\ file_analysis.methods[k].line_number = fn.lineno
    IN file_analysis.methods[at].id

\* the call relationships emitted for a call site
CallRelationshipsOf(site) ==
    {k \in 1..Len(file_analysis.relationships) :
        /\ file_analysis.relationships[k].relationship_type = "call"
        /\ file_analysis.relationships[k].line_number = site.lineno
        /\ file_analysis.relationships[k].to_entity = site.name}

\* exactly one call relationship stands for the site, from the innermost
\* function enclosing it
AttributedToInnermost(site) ==
    /\ Cardinality(CallRelationshipsOf(site)) = 1
    /\ \A k \in CallRelationshipsOf(site) :
          file_analysis.relationships[k].from_entity = MethodIdOf(site.enclosing)

\* C36: for every call expression inside a method or function body, pass 2
\* emits exactly one call relationship, whose from is the id of the
\* innermost method or function enclosing the call; also for the calls that
\* come after a nested function definition in the same method
C36_CallsFromInnermostFunction ==
    file_analysis # NoAnalysis =>
        \A site \in CallSites(source, NoFunction, FALSE) : AttributedToInnermost(site)

\* the calls that no nested function definition precedes in their function
\* each have their one relationship, from the innermost function
CallsBeforeNestedDefAttributed ==
    file_analysis # NoAnalysis =>
        \A site \in CallSites(source, NoFunction, FALSE) :
            ~site.after_def => AttributedToInnermost(site)

\* the lines of the assignments that stand directly in a class body
RECURSIVE ClassBodyAssignments(_, _)
ClassBodyAssignments(nodes, in_class_body) ==
    IF nodes = <<>> THEN {}
    ELSE LET node == Head(nodes)
             here ==
                 CASE node.kind = "Assign" -> IF in_class_body THEN {node.lineno} ELSE {}
                   [] node.kind = "ClassDef" -> ClassBodyAssignments(node.body, TRUE)
                   [] node.kind = "FunctionDef" -> ClassBodyAssignments(node.body, FALSE)
                   [] OTHER -> {}
         IN here \cup ClassBodyAssignments(Tail(nodes), in_class_body)

\* the lines of the assignments that stand in __init__
RECURSIVE InitAssignments(_, _)
InitAssignments(nodes, in_init) ==
    IF nodes = <<>> THEN {}
    ELSE LET node == Head(nodes)
             here ==
                 CASE node.kind = "Assign" -> IF in_init THEN {node.lineno} ELSE {}
                   [] node.kind = "ClassDef" -> InitAssignments(node.body, FALSE)
                   [] node.kind = "FunctionDef" ->
                        InitAssignments(node.body, in_init \/ node.name = "__init__")
                   [] OTHER -> {}
         IN here \cup InitAssignments(Tail(nodes), in_init)

\* C37: is_class_variable of a field is true exactly when the assignment
\* that created it stands in the class body itself; an assignment inside a
\* method of the class, __init__ or another, gives is_class_variable false
C37_ClassVariableIffInClassBody ==
    file_analysis # NoAnalysis =>
        \A k \in 1..Len(file_analysis.fields) :
            file_analysis.fields[k].is_class_variable
                = (file_analysis.fields[k].line_number \in ClassBodyAssignments(source, FALSE))

\* the fields assigned in the class body are class variables and those
\* assigned in __init__ are not
ClassBodyAndInitFieldsTold ==
    file_analysis # NoAnalysis =>
        \A k \in 1..Len(file_analysis.fields) :
            /\ (file_analysis.fields[k].line_number \in ClassBodyAssignments(source, FALSE))
                  => file_analysis.fields[k].is_class_variable
            /\ (file_analysis.fields[k].line_number \in InitAssignments(source, FALSE))
                  => ~file_analysis.fields[k].is_class_variable

(***************************************************************************)
(* performance_optimizer.py: ParallelAnalyzer.process_parallel             *)
(***************************************************************************)
\* the longest task list and the largest pool
MaxTasks == 4
MaxPoolWorkers == 2

\* max(1, total_tasks // (self.max_workers * 2))
chunk_size(n, workers) ==
    IF n \div (workers * 2) > 1 THEN n \div (workers * 2) ELSE 1

\* s[n:]
Drop(s, n) == SubSeq(s, (IF n < Len(s) THEN n ELSE Len(s)) + 1, Len(s))

ParallelInit ==
    /\ EngineIdle
    /\ CacheIdle
    /\ DetectorIdle
    /\ ManagerIdle
    /\ MatcherIdle
    /\ ExtractorIdle
    /\ ParallelIdle

\* process_parallel(tasks, worker_func) up to the loop: the executor is
\* made and the initial batch of chunk_size * max_workers tasks submitted
ProcessParallel ==
    /\ par_pc = "idle"
    /\ \E n \in 0..MaxTasks, workers \in 1..MaxPoolWorkers :
          LET tasks == [k \in 1..n |-> k]
              initial_batch == Take(tasks, chunk_size(n, workers) * workers)
          IN /\ total_tasks' = n
             /\ pool_workers' = workers
             /\ pending_tasks' = Drop(tasks, chunk_size(n, workers) * workers)
             /\ future_to_task' = Range(initial_batch)
             /\ submissions' = [k \in 1..n |-> IF k \in Range(initial_batch) THEN 1 ELSE 0]
    /\ results' = <<>>
    /\ saw_critical' = FALSE
    /\ par_pc' = "running"
    /\ UNCHANGED <<engine_vars, cache_vars, detector_vars, manager_vars, matcher_vars,
                   extractor_vars>>

\* one round of the while loop in which as_completed yields a future: its
\* result is appended or its exception reported, the future is removed, and
\* the next pending task is submitted if memory is not critical and fewer
\* than max_workers * 2 futures are left
FutureCompleted ==
    /\ par_pc = "running"
    /\ \E task \in future_to_task, failed \in BOOLEAN, memory_critical \in BOOLEAN :
          LET left == future_to_task \ {task}
              submits == /\ pending_tasks # <<>>
                         /\ ~memory_critical
                         /\ Cardinality(left) < pool_workers * 2
          IN /\ results' = IF failed THEN results ELSE Append(results, task)
             /\ future_to_task' = IF submits THEN left \cup {Head(pending_tasks)} ELSE left
             /\ pending_tasks' = IF submits THEN Tail(pending_tasks) ELSE pending_tasks
             /\ submissions' = IF submits
                               THEN [submissions EXCEPT ![Head(pending_tasks)] = @ + 1]
                               ELSE submissions
             /\ saw_critical' = (saw_critical \/ (pending_tasks # <<>> /\ memory_critical))
    /\ UNCHANGED <<par_pc, total_tasks, pool_workers>>
    /\ UNCHANGED <<engine_vars, cache_vars, detector_vars, manager_vars, matcher_vars,
                   extractor_vars>>

\* no future completes within the second as_completed(timeout=1) waits:
\* TimeoutError leaves the loop and the call
AsCompletedTimesOut ==
    /\ par_pc = "running"
    /\ future_to_task # {}
    /\ par_pc' = "raised"
    /\ UNCHANGED <<total_tasks, pool_workers, pending_tasks, future_to_task, results,
                   submissions, saw_critical>>
    /\ UNCHANGED <<engine_vars, cache_vars, detector_vars, manager_vars, matcher_vars,
                   extractor_vars>>

\* future_to_task is empty: the loop ends and results is returned
ReturnResults ==
    /\ par_pc = "running"
    /\ future_to_task = {}
    /\ par_pc' = "returned"
    /\ UNCHANGED <<total_tasks, pool_workers, pending_tasks, future_to_task, results,
                   submissions, saw_critical>>
    /\ UNCHANGED <<engine_vars, cache_vars, detector_vars, manager_vars, matcher_vars,
                   extractor_vars>>

ParallelNext ==
    \/ ProcessParallel
    \/ FutureCompleted
    \/ AsCompletedTimesOut
    \/ ReturnResults

SpecParallel == ParallelInit /\ [][ParallelNext]_vars

\* the workers finish their tasks and the loop goes on
SpecParallelLive ==
    /\ SpecParallel
    /\ WF_vars(FutureCompleted)
    /\ WF_vars(ReturnResults)

(***************************************************************************)
(* Properties of process_parallel                                          *)
(***************************************************************************)
\* C38: process_parallel terminates and, when it returns, the worker
\* function has been submitted exactly once for every task of its input
\* list: no task is left unsubmitted, whatever the memory-pressure readings
\* and the completion order during the run
C38_EveryTaskSubmittedOnce ==
    par_pc = "returned" =>
        /\ pending_tasks = <<>>
        /\ \A task \in 1..total_tasks : submissions[task] = 1

\* no task is ever submitted twice, and a call that never read a critical
\* memory level while tasks were pending returns with every task submitted
SubmittedOnceWithoutPressure ==
    /\ \A task \in 1..total_tasks : submissions[task] <= 1
    /\ (par_pc = "returned" /\ ~saw_critical) =>
          \A task \in 1..total_tasks : submissions[task] = 1

\* a call of process_parallel comes to an end, by return or by TimeoutError
ProcessParallelEnds == (par_pc = "running") ~> (par_pc \in {"returned", "raised"})

(***************************************************************************)
(* Properties of the expiry of cache entries                               *)
(***************************************************************************)
\* get_cache has just returned an entry
EntryReturned == cm_call.op = "get" /\ cm_call.outcome = "hit"

\* C39: get_cache never returns a cache entry whose expires_at lies in the
\* past at the time of the call, whatever saves, reads and removals came
\* before
C39_NoExpiredEntryReturned == EntryReturned => ~expired(cm_call.created_at)

\* a CacheManager that has just been constructed holds no expired key in
\* its index, and the entry file of every key it removed is gone
NoExpiredKeyAfterInit ==
    (cm_call.op = "init" /\ cm_call.outcome = "returned") =>
        /\ \A cache_id \in cache_index : ~expired(index_created_at[cache_id])
        /\ \A cache_id \in cm_call.removed : cache_dir[cache_id].state = "absent"

\* an entry that has expired since it was saved is returned by get_cache
ExpiredEntryReturned == EntryReturned /\ expired(cm_call.created_at)

\* __init__ has removed an expired entry
ExpiredEntryRemoved == cm_call.op = "init" /\ cm_call.removed # {}

(***************************************************************************)
(* Properties of the size of the cache directory                           *)
(***************************************************************************)
\* save_cache has just returned, after writing its entry or after unlinking
\* a file it could not write
SaveReturned == cm_call.op = "save" /\ cm_call.outcome \in {"written", "unlinked"}

\* the entry just saved is no larger than max_cache_size
SavedEntryFits == st_size_of(EntryFile(cm_call.created_at)) <= MaxCacheSize

\* C40: after every save_cache call returns, the entry files of the cache
\* directory take no more than max_cache_size in all, provided the entry
\* just saved fits within that budget on its own
C40_DirectoryWithinBudgetAfterSave ==
    (SaveReturned /\ SavedEntryFits) =>
        TotalSize(cache_dir, EntryFiles(cache_dir)) <= MaxCacheSize

\* what save_cache does ensure: the files other than the one it wrote take
\* no more than max_cache_size, and the files it removed are gone
OtherEntriesWithinBudgetAfterSave ==
    SaveReturned =>
        /\ TotalSize(cache_dir, EntryFiles(cache_dir) \ {cm_call.cache_id}) <= MaxCacheSize
        /\ \A cache_id \in cm_call.removed \ {cm_call.cache_id} :
              cache_dir[cache_id].state = "absent"

\* save_cache has written an entry beside the entries already there
SecondEntrySaved ==
    /\ SaveReturned
    /\ cm_call.outcome = "written"
    /\ EntryFiles(cache_dir) \ {cm_call.cache_id} # {}
====
